---------------------------- MODULE Spec2Model ----------------------------
(***************************************************************************)
(* A model of the ingestion core of cudf:                                  *)
(*   cpp/src/io/comp/uncomp.cpp  - gzip / zip / bzip2 container parsing,   *)
(*                                  the inflate and bzip2 drivers and the  *)
(*                                  host SNAPPY decoder;                   *)
(*   cpp/src/io/avro/avro_gpu.cu - the schema driven Avro row decoder.     *)
(*                                                                         *)
(* Buffers are sequences of bytes (0..255).  A C pointer into a buffer is  *)
(* modelled by its byte offset from the start of the buffer, so the byte   *)
(* at offset o of buffer b is b[o + 1]; the null pointer is NULL.          *)
(* The entry points have specifications of their own: Spec (the archive    *)
(* entry points), SpecSnappy, SpecAvro (one call of avro_decode_row) and   *)
(* SpecKernel (gpuDecodeAvroColumnData); the variables of the other entry  *)
(* points keep their idle values there.                                    *)
(***************************************************************************)
EXTENDS Integers, Sequences, FiniteSets, TLC

VARIABLES
  \* ---- archive parsing and decompression (uncomp.cpp) ----
  entry,        \* which entry point was called
  raw,          \* the input buffer (src / srcBytes)
  stream_type,  \* io_uncompress_single_h2d: the stream type, rewritten by the parsers
  pc,           \* position inside the entry point
  gz,           \* gz_archive_s filled by ParseGZArchive, with its return value
  comp_data,    \* offset of the selected payload in raw, or NULL
  comp_len,     \* length of the selected payload
  uncomp_len,   \* expected size of the output
  dstLen,       \* HostDecompressor::Decompress: capacity of the caller's buffer
  result,       \* what the caller gets back
  beyond,       \* the memory that follows the input buffer
  hint,         \* io_uncompress_single_h2d: stream_type as passed by the caller
  tried,        \* io_uncompress_single_h2d: the parsers run so far, in order
  zip,          \* io_uncompress_single_h2d: what the zip case found
  dst,          \* io_uncompress_single_h2d: size of the local vector dst
  strm,         \* cpu_inflate_vector: the z_stream counters and the last zerr
  bz,           \* the bzip2 loop: src_ofs, dst_ofs, dst_len, bz_err
  codec,        \* what the codec library finds in the selected payload
  \* ---- HostDecompressor_SNAPPY::Decompress (uncomp.cpp) ----
  snappy,       \* the arguments, the locals and the return value of one call
  \* ---- avro_decode_row (avro_gpu.cu) ----
  avro,         \* the arguments, the locals and the outputs of one call
  \* ---- gpuDecodeAvroColumnData (avro_gpu.cu) ----
  kern          \* the arguments, the warps and the device memory of one launch

archVars ==
  <<entry, raw, stream_type, pc, gz, comp_data, comp_len, uncomp_len, dstLen, result,
    beyond, hint, tried, zip, dst, strm, bz, codec>>

vars == <<archVars, snappy, avro, kern>>

-----------------------------------------------------------------------------
(* Bytes, little-endian integers and bit tests.                            *)

NULL == -1

Byte == 0..255

\* v & mask # 0 for a mask that is a single bit (a power of two).
BitSet(v, mask) == (v \div mask) % 2 = 1

\* b0 | (b1 << 8): a 16-bit little-endian value at offset ofs of buf.
LE16(buf, ofs) == buf[ofs + 1] + 256 * buf[ofs + 2]

\* b0 | (b1 << 8) | (b2 << 16) | (b3 << 24), as stored in a uint32_t.  The
\* model checker's integers are 32-bit signed, so a uint32_t that is only
\* stored and compared is kept as its two 16-bit halves.
LE32(buf, ofs) == [lo |-> LE16(buf, ofs), hi |-> LE16(buf, ofs + 2)]

U32Zero == [lo |-> 0, hi |-> 0]

\* A uint32_t converted to size_t; the inputs keep it below 2^31.
ToSize(u) == u.hi * 65536 + u.lo

\* All sequences over S of length at most n.
BoundedSeq(S, n) == UNION {[1..k -> S] : k \in 0..n}

-----------------------------------------------------------------------------
(* ParseGZArchive (uncomp.cpp:127-189).                                    *)

\* sizeof(gz_file_header_s): id1, id2, comp_mthd, flags, mtime[4], xflags, os.
GzHeaderSize == 10
\* The 4-byte CRC32 and the 4-byte ISIZE that end a gzip member.
GzTrailerSize == 8

\* GZIPHeaderFlag (io_uncomp.h, RFC 1952): bits of the flag byte.
fhcrc == 2
fextra == 4
fname == 8
fcomment == 16

\* gz_archive_s after memset(dst, 0, sizeof(gz_archive_s)).
GzZero ==
  [fhdr |-> NULL, hcrc16 |-> 0, xlen |-> 0, fxtra |-> NULL, fname |-> NULL,
   fcomment |-> NULL, comp_data |-> NULL, comp_len |-> 0, crc32 |-> U32Zero, isize |-> U32Zero]

\* The parser's position: p is the offset of the advancing raw pointer, len the
\* bytes left from p, dst the archive record, live is FALSE once the function
\* has executed a "return false".
GzStart(buf) ==
  IF Len(buf) < GzHeaderSize + GzTrailerSize
    THEN [live |-> FALSE, p |-> 0, len |-> Len(buf), dst |-> GzZero]
  ELSE IF buf[1] # 31 \/ buf[2] # 139
    THEN [live |-> FALSE, p |-> 0, len |-> Len(buf), dst |-> GzZero]
  ELSE [live |-> TRUE, p |-> GzHeaderSize, len |-> Len(buf) - GzHeaderSize,
        dst |-> [GzZero EXCEPT !.fhdr = 0]]

\* if (fhdr->flags & GZIPHeaderFlag::fextra) { ... }
GzExtra(buf, st) ==
  IF ~st.live \/ ~BitSet(buf[4], fextra) THEN st
  ELSE IF st.len < 2 THEN [st EXCEPT !.live = FALSE]
  ELSE LET xlen == LE16(buf, st.p) IN
       IF st.len - 2 < xlen THEN [st EXCEPT !.live = FALSE, !.p = @ + 2, !.len = @ - 2]
       ELSE [st EXCEPT !.p = @ + 2 + xlen, !.len = @ - 2 - xlen,
                       !.dst.xlen = xlen, !.dst.fxtra = st.p + 2]

\* do { if (l >= len) return false; c = raw[l]; l++; } while (c != 0);
\* The value of l after the loop, or NULL when the loop returned false.
RECURSIVE GzScanZ(_, _, _, _)
GzScanZ(buf, p, len, l) ==
  IF l >= len THEN NULL
  ELSE IF buf[p + l + 1] = 0 THEN l + 1
  ELSE GzScanZ(buf, p, len, l + 1)

GzName_NoTerminator(buf, st) ==
  IF ~st.live \/ ~BitSet(buf[4], fname) THEN st
  ELSE LET l == GzScanZ(buf, st.p, st.len, 0) IN
       IF l = NULL THEN [st EXCEPT !.live = FALSE]
       ELSE [st EXCEPT !.p = @ + l - 1, !.len = @ - (l - 1), !.dst.fname = st.p]

\* if (fhdr->flags & GZIPHeaderFlag::fname) { ... }
GzName(buf, st) ==
  IF ~st.live \/ ~BitSet(buf[4], fname) THEN st
  ELSE LET l == GzScanZ(buf, st.p, st.len, 0) IN
       IF l = NULL THEN [st EXCEPT !.live = FALSE]
       ELSE [st EXCEPT !.p = @ + l, !.len = @ - l, !.dst.fname = st.p]

\* if (fhdr->flags & GZIPHeaderFlag::fcomment) { ... }
GzComment(buf, st) ==
  IF ~st.live \/ ~BitSet(buf[4], fcomment) THEN st
  ELSE LET l == GzScanZ(buf, st.p, st.len, 0) IN
       IF l = NULL THEN [st EXCEPT !.live = FALSE]
       ELSE [st EXCEPT !.p = @ + l, !.len = @ - l, !.dst.fcomment = st.p]

\* if (fhdr->flags & GZIPHeaderFlag::fhcrc) { ... }
GzHcrc(buf, st) ==
  IF ~st.live \/ ~BitSet(buf[4], fhcrc) THEN st
  ELSE IF st.len < 2 THEN [st EXCEPT !.live = FALSE]
  ELSE [st EXCEPT !.p = @ + 2, !.len = @ - 2, !.dst.hcrc16 = LE16(buf, st.p)]

GzTrailer_AnyMethod(buf, st) ==
  IF ~st.live THEN [ret |-> FALSE, dst |-> st.dst]
  ELSE IF st.len < GzTrailerSize THEN [ret |-> FALSE, dst |-> st.dst]
  ELSE LET len == st.len - GzTrailerSize IN
       [ret |-> len > 0,
        dst |-> [st.dst EXCEPT !.crc32 = LE32(buf, st.p + st.len - 8),
                               !.isize = LE32(buf, st.p + st.len - 4),
                               !.comp_data = st.p,
                               !.comp_len = len]]

\* if (len < 8) return false; ... return (fhdr->comp_mthd == 8 && len > 0);
GzTrailer(buf, st) ==
  IF ~st.live THEN [ret |-> FALSE, dst |-> st.dst]
  ELSE IF st.len < GzTrailerSize THEN [ret |-> FALSE, dst |-> st.dst]
  ELSE LET len == st.len - GzTrailerSize IN
       [ret |-> (buf[3] = 8 /\ len > 0),
        dst |-> [st.dst EXCEPT !.crc32 = LE32(buf, st.p + st.len - 8),
                               !.isize = LE32(buf, st.p + st.len - 4),
                               !.comp_data = st.p,
                               !.comp_len = len]]

\* bool ParseGZArchive(gz_archive_s* dst, const uint8_t* raw, size_t len):
\* the optional fields are parsed in the order extra, name, comment, header CRC.
ParseGZArchive(buf) ==
  GzTrailer(buf, GzHcrc(buf, GzComment(buf, GzName(buf, GzExtra(buf, GzStart(buf))))))

-----------------------------------------------------------------------------
(* Reads of the zip structures.  The zip code overlays structs on the      *)
(* buffer and does not always check that a struct lies inside it, so a     *)
(* read can fall past the end of the buffer.  What such a read returns is  *)
(* not decided by the program: mem.slack is what happens to follow the     *)
(* buffer in memory (repeated), and mem.mapped says whether that memory    *)
(* can be read at all (when it cannot, the read faults).                   *)

RdByte(mem, o) ==
  IF o < Len(mem.buf) THEN mem.buf[o + 1]
  ELSE mem.slack[((o - Len(mem.buf)) % Len(mem.slack)) + 1]

\* *reinterpret_cast<const uint16_t*>(raw + o)
Rd16(mem, o) == RdByte(mem, o) + 256 * RdByte(mem, o + 1)

\* A uint32_t field used in arithmetic; the inputs keep it below 2^31.
Rd32(mem, o) == Rd16(mem, o) + 65536 * Rd16(mem, o + 2)

\* The four bytes of a signature field, in memory order.
RdSig(mem, o) == <<RdByte(mem, o), RdByte(mem, o + 1), RdByte(mem, o + 2), RdByte(mem, o + 3)>>

\* Whether the n bytes at offset o lie inside the buffer.
InBuf(mem, o, n) == o >= 0 /\ o + n <= Len(mem.buf)

\* sizeof of the packed structs (uncomp.cpp:46-99).
SizeofEocd == 20
SizeofEocdl == 20
SizeofCdfh == 46
SizeofLfh == 30

\* 0x06054b50, 0x07064b50, 0x02014b50, 0x04034b50 as stored (little-endian).
SigEocd == <<80, 75, 5, 6>>
SigEocdl == <<80, 75, 6, 7>>
SigCdfh == <<80, 75, 1, 2>>
SigLfh == <<80, 75, 3, 4>>

\* zip_archive_s after memset(dst, 0, sizeof(zip_archive_s)); oob records
\* whether some read fell outside the buffer.
ZaZero == [eocd |-> NULL, eocdl |-> NULL, cdfh |-> NULL, oob |-> FALSE]

\* The test of one candidate position i of the end-of-central-directory scan
\* (uncomp.cpp:200-204); every byte it reads is inside [i, i + 22).
EocdMatches(mem, i) ==
  /\ RdSig(mem, i) = SigEocd
  /\ Rd16(mem, i + 4) = Rd16(mem, i + 6)
  /\ Rd16(mem, i + 8) = Rd16(mem, i + 10)
  /\ Rd32(mem, i + 12) >= SizeofCdfh * Rd16(mem, i + 8)
  /\ Rd32(mem, i + 16) < Len(mem.buf)
  /\ i + Rd16(mem, i + SizeofEocd) <= Len(mem.buf)

\* The body of the scan for one matching i (uncomp.cpp:205-212).
EocdTake(mem, i, za) ==
  LET cdfh == Rd32(mem, i + 16)
      d1 == [za EXCEPT !.eocd = i, !.oob = @ \/ ~InBuf(mem, cdfh, 4)]
      d2 == IF i >= SizeofEocdl /\ RdSig(mem, i - SizeofEocdl) = SigEocdl
              THEN [d1 EXCEPT !.eocdl = i - SizeofEocdl] ELSE d1
  IN IF RdSig(mem, cdfh) = SigCdfh THEN [d2 EXCEPT !.cdfh = cdfh] ELSE d2

\* for (ptrdiff_t i = len - sizeof(zip_eocd_s) - 2;
\*      i + sizeof(zip_eocd_s) + 2 + 0xffff >= len && i >= 0; i--)
\* The positions the loop visits.
EocdRange(mem) ==
  {i \in 0..(Len(mem.buf) - SizeofEocd - 2) : i + SizeofEocd + 2 + 65535 >= Len(mem.buf)}

\* The loop over the visited positions, from the highest down: only the
\* positions that pass the test change dst, so the loop is run over those.
RECURSIVE EocdScan(_, _, _)
EocdScan(mem, cands, za) ==
  IF cands = {} THEN za
  ELSE LET i == CHOOSE x \in cands : \A y \in cands : y <= x
       IN EocdScan(mem, cands \ {i}, EocdTake(mem, i, za))

\* bool OpenZipArchive(zip_archive_s* dst, const uint8_t* raw, size_t len)
OpenZipArchive(mem) ==
  LET za == IF Len(mem.buf) >= SizeofEocd + 2
               THEN EocdScan(mem, {i \in EocdRange(mem) : EocdMatches(mem, i)}, ZaZero)
               ELSE ZaZero
  IN [ret |-> (za.eocd # NULL /\ za.cdfh # NULL), za |-> za]

\* What the walk of the central directory leaves in the locals of
\* io_uncompress_single_h2d.
ZipNone == [selected |-> FALSE, comp_data |-> NULL, comp_len |-> 0, uncomp_len |-> 0,
            oob |-> FALSE, visited |-> 0]

LfhAccepts_NoEnd(mem, lfh_ofs) ==
  /\ lfh_ofs + SizeofLfh <= Len(mem.buf)
  /\ RdSig(mem, lfh_ofs) = SigLfh
  /\ lfh_ofs + SizeofLfh + Rd16(mem, lfh_ofs + 26) + Rd16(mem, lfh_ofs + 28) <= Len(mem.buf)
  /\ Rd16(mem, lfh_ofs + 8) = 8
  /\ Rd32(mem, lfh_ofs + 18) > 0
  /\ Rd32(mem, lfh_ofs + 22) > 0

\* The local file header test of one central-directory entry
\* (uncomp.cpp:331-346): TRUE when the entry is picked.
LfhAccepts(mem, lfh_ofs) ==
  /\ lfh_ofs + SizeofLfh <= Len(mem.buf)
  /\ RdSig(mem, lfh_ofs) = SigLfh
  /\ lfh_ofs + SizeofLfh + Rd16(mem, lfh_ofs + 26) + Rd16(mem, lfh_ofs + 28) <= Len(mem.buf)
  /\ Rd16(mem, lfh_ofs + 8) = 8
  /\ Rd32(mem, lfh_ofs + 18) > 0
  /\ Rd32(mem, lfh_ofs + 22) > 0
  /\ lfh_ofs + SizeofLfh + Rd16(mem, lfh_ofs + 26) + Rd16(mem, lfh_ofs + 28)
       + Rd32(mem, lfh_ofs + 18) <= Len(mem.buf)

\* The walk advancing by sizeof(zip_cdfh_s) only.
RECURSIVE ZipWalk_FixedStride(_, _, _, _, _)
ZipWalk_FixedStride(mem, za, i, cdfh_ofs, oob) ==
  IF ~(i < Rd16(mem, za.eocd + 8)) THEN [ZipNone EXCEPT !.visited = i]
  ELSE
    LET cdfh == za.cdfh + cdfh_ofs
        lfh_ofs == Rd32(mem, cdfh + 42)
    IN IF cdfh_ofs + SizeofCdfh > Rd32(mem, za.eocd + 12) \/ RdSig(mem, cdfh) # SigCdfh
         THEN [ZipNone EXCEPT !.visited = i]
       ELSE IF Rd16(mem, cdfh + 10) = 8 /\ Rd32(mem, cdfh + 20) > 0
                 /\ Rd32(mem, cdfh + 24) > 0 /\ LfhAccepts(mem, lfh_ofs)
         THEN [selected |-> TRUE,
               comp_data |-> lfh_ofs + SizeofLfh + Rd16(mem, lfh_ofs + 26)
                               + Rd16(mem, lfh_ofs + 28),
               comp_len |-> Rd32(mem, lfh_ofs + 18),
               uncomp_len |-> Rd32(mem, lfh_ofs + 22),
               oob |-> oob, visited |-> i + 1]
       ELSE ZipWalk_FixedStride(mem, za, i + 1, cdfh_ofs + SizeofCdfh, oob)

\* for (int i = 0; i < za.eocd->num_entries; i++) { ... } (uncomp.cpp:321-350)
RECURSIVE ZipWalk(_, _, _, _, _)
ZipWalk(mem, za, i, cdfh_ofs, oob) ==
  IF ~(i < Rd16(mem, za.eocd + 8))
    THEN [ZipNone EXCEPT !.oob = oob, !.visited = i]
  ELSE
    LET cdfh == za.cdfh + cdfh_ofs
        cdfh_len == SizeofCdfh + Rd16(mem, cdfh + 28) + Rd16(mem, cdfh + 30)
                      + Rd16(mem, cdfh + 32)
        oob1 == oob \/ ~InBuf(mem, cdfh + 28, 6)
    IN IF cdfh_ofs + cdfh_len > Rd32(mem, za.eocd + 12)
         THEN [ZipNone EXCEPT !.oob = oob1, !.visited = i]
       ELSE IF RdSig(mem, cdfh) # SigCdfh
         THEN [ZipNone EXCEPT !.oob = oob1 \/ ~InBuf(mem, cdfh, 4), !.visited = i]
       ELSE
         LET oob2 == oob1 \/ ~InBuf(mem, cdfh, 4) \/ ~InBuf(mem, cdfh + 10, 2)
             deflate == Rd16(mem, cdfh + 10) = 8
             oob3 == oob2 \/ (deflate /\ ~InBuf(mem, cdfh + 20, 4))
             sized == deflate /\ Rd32(mem, cdfh + 20) > 0
             oob4 == oob3 \/ (sized /\ ~InBuf(mem, cdfh + 24, 4))
             wanted == sized /\ Rd32(mem, cdfh + 24) > 0
             oob5 == oob4 \/ (wanted /\ ~InBuf(mem, cdfh + 42, 4))
             lfh_ofs == Rd32(mem, cdfh + 42)
         IN IF wanted /\ LfhAccepts(mem, lfh_ofs)
              THEN [selected |-> TRUE,
                    comp_data |-> lfh_ofs + SizeofLfh + Rd16(mem, lfh_ofs + 26)
                                    + Rd16(mem, lfh_ofs + 28),
                    comp_len |-> Rd32(mem, lfh_ofs + 18),
                    uncomp_len |-> Rd32(mem, lfh_ofs + 22),
                    oob |-> oob5, visited |-> i + 1]
            ELSE ZipWalk(mem, za, i + 1, cdfh_ofs + cdfh_len, oob5)

-----------------------------------------------------------------------------
(* Inputs of ParseGZArchive: a 10-byte header with at most one wrong field *)
(* and any combination of the four optional-field flags, then up to MaxMid *)
(* bytes over GzMidBytes, then nothing or a 9-byte pattern (one payload    *)
(* byte, a CRC32 with a zero byte and the top bit set, and an ISIZE).       *)

MaxMid == 7

GzMidBytes == {0, 1}

GzTrailerPattern == <<75, 120, 0, 52, 146, 3, 2, 1, 0>>

GzMagicMethod == {<<31, 139, 8>>, <<30, 139, 8>>, <<31, 138, 8>>, <<31, 139, 0>>}

GzFlagBytes == {f \in 0..31 : f % 2 = 0}

GzHdr(h, f) == <<h[1], h[2], h[3], f, 0, 0, 0, 0, 0, 3>>

GzInputs(maxmid) ==
  {GzHdr(h, f) \o mid \o tr :
     h \in GzMagicMethod, f \in GzFlagBytes,
     mid \in BoundedSeq(GzMidBytes, maxmid), tr \in {<<>>, GzTrailerPattern}}

-----------------------------------------------------------------------------
(* Zip inputs: an archive of 1..MaxZipEntries entries, each stored, deflate *)
(* or deflate with zero sizes, laid out as local entries, central directory *)
(* and end-of-central-directory record, whole or with one defect.           *)

MaxZipEntries == 3

U16B(v) == <<v % 256, v \div 256>>
U32B(v) == <<v % 256, (v \div 256) % 256, (v \div 65536) % 256, v \div 16777216>>

\* Entry kinds, with the method, the payload bytes and the declared
\* uncompressed size of the k-th entry.
ZipKinds == {"stored", "deflate", "empty"}
ZipMethod(kind) == IF kind = "stored" THEN 0 ELSE 8
ZipData(kind, k) ==
  IF kind = "empty" THEN <<>>
  ELSE IF kind = "stored" THEN <<k, k>>
  ELSE <<100 + k, 110 + k, 120 + k>>
ZipUsize(kind, k) == IF kind = "empty" THEN 0 ELSE IF kind = "stored" THEN 2 ELSE 40 + k
ZipName(k) == <<96 + k>>

ZipLfh(kind, k, defect) ==
  (IF defect = "lfh_sig" THEN <<80, 75, 3, 5>> ELSE SigLfh) \o U16B(20) \o U16B(0)
    \o U16B(ZipMethod(kind)) \o U16B(0) \o U16B(0) \o U32B(0)
    \o U32B(IF defect = "lfh_long" THEN 400 ELSE Len(ZipData(kind, k)))
    \o U32B(ZipUsize(kind, k)) \o U16B(Len(ZipName(k))) \o U16B(0)

ZipLocal(kind, k, defect) == ZipLfh(kind, k, defect) \o ZipName(k) \o ZipData(kind, k)

ZipCdfh(kind, k, hdr_ofs) ==
  SigCdfh \o U16B(20) \o U16B(20) \o U16B(0) \o U16B(ZipMethod(kind)) \o U16B(0)
    \o U16B(0) \o U32B(0) \o U32B(Len(ZipData(kind, k))) \o U32B(ZipUsize(kind, k))
    \o U16B(Len(ZipName(k))) \o U16B(0) \o U16B(0) \o U16B(0) \o U16B(0) \o U32B(0)
    \o U32B(hdr_ofs) \o ZipName(k)

ZipEocd(n, cdir_size, cdir_offset, defect) ==
  SigEocd \o U16B(IF defect = "multidisk" THEN 1 ELSE 0) \o U16B(0) \o U16B(n) \o U16B(n)
    \o U32B(cdir_size) \o U32B(cdir_offset)
    \o (IF defect = "comment" THEN U16B(2) \o <<33, 33>> ELSE U16B(0))

RECURSIVE ZipLocals(_, _, _)
ZipLocals(kinds, k, defect) ==
  IF k > Len(kinds) THEN <<>>
  ELSE ZipLocal(kinds[k], k, defect) \o ZipLocals(kinds, k + 1, defect)

\* Offset of the k-th local file header.
RECURSIVE ZipLocalOfs(_, _, _)
ZipLocalOfs(kinds, k, defect) ==
  IF k = 1 THEN 0
  ELSE ZipLocalOfs(kinds, k - 1, defect) + Len(ZipLocal(kinds[k - 1], k - 1, defect))

RECURSIVE ZipCdir(_, _, _)
ZipCdir(kinds, k, defect) ==
  IF k > Len(kinds) THEN <<>>
  ELSE ZipCdfh(kinds[k], k, ZipLocalOfs(kinds, k, defect)) \o ZipCdir(kinds, k + 1, defect)

\* "lfh_sig": every local header has a wrong signature; "lfh_long": every
\* local header declares 400 compressed bytes; "multidisk": the record names
\* another disk; "comment": the record carries a 2-byte comment.
ZipDefects == {"none", "lfh_sig", "lfh_long", "multidisk", "comment", "cdir_cut"}

\* "cdir_cut": the record comes first and the central directory, cut after
\* its first 12 bytes, ends the buffer.
ZipArchive(kinds, defect) ==
  LET locals == ZipLocals(kinds, 1, defect)
      cdir == ZipCdir(kinds, 1, defect)
  IN IF defect = "cdir_cut"
       THEN ZipEocd(Len(kinds), Len(cdir), SizeofEocd + 2, defect) \o SubSeq(cdir, 1, 12)
       ELSE locals \o cdir \o ZipEocd(Len(kinds), Len(cdir), Len(locals), defect)

ZipInputs ==
  {ZipArchive(kinds, defect) :
     kinds \in UNION {[1..n -> ZipKinds] : n \in 1..MaxZipEntries}, defect \in ZipDefects}

\* Bzip2 inputs: "BZh" and a block-size character, then up to two bytes.
Bz2Inputs ==
  {<<66, 90, 104, d>> \o rest : d \in {48, 49, 57, 58}, rest \in {<<>>, <<49>>, <<49, 65>>}}
    \cup {<<66, 90, 105, 49, 49>>, <<67, 90, 104, 49, 49>>}

\* Inputs no parser recognises.
JunkInputs == {<<>>, <<0>>, [i \in 1..24 |-> 80]}

-----------------------------------------------------------------------------
(* The codec libraries.  zlib and the bzip2 block decoder decide from the  *)
(* bytes of the payload how much output the stream holds and how it ends;  *)
(* the model does not decode the payload, so that is a fact about the      *)
(* input fixed when decoding starts.                                       *)

\* 1 << 30, the increment of cpu_inflate_vector.
InflateGrow == 1073741824

\* What zlib finds in a raw deflate payload: the bytes it can produce and
\* whether the stream then ends with its end-of-stream marker ("end"), just
\* stops ("truncated") or is invalid at that point ("corrupt"); "nomem" is
\* an inflateInit2 that fails.
DeflateTruths(cap) ==
  {[total |-> n, ending |-> e] :
     n \in {1, cap, cap + 1}, e \in {"end", "truncated", "corrupt", "nomem"}}

\* inflate(&strm, Z_SYNC_FLUSH) on the counters st, for the payload truth t.
Inflate(st, t) ==
  LET remaining == t.total - st.total_out
      n == IF remaining < st.avail_out THEN remaining ELSE st.avail_out
      zerr == IF remaining > st.avail_out
                THEN (IF n > 0 THEN "Z_OK" ELSE "Z_BUF_ERROR")
              ELSE IF t.ending = "end" THEN "Z_STREAM_END"
              ELSE IF t.ending = "corrupt" THEN "Z_DATA_ERROR"
              ELSE IF n > 0 THEN "Z_OK" ELSE "Z_BUF_ERROR"
  IN [avail_out |-> st.avail_out - n, total_out |-> st.total_out + n, zerr |-> zerr]

\* What the bzip2 block decoder finds in the payload.
Bz2Truths(cap) ==
  {[total |-> n, ending |-> e] : n \in {1, cap, cap + 1, 2 * cap}, e \in {"end", "corrupt"}}

\* cpu_bz2_uncompress(comp_data, comp_len, dest, &dst_len, &src_ofs) with
\* avail bytes of room, resuming at src_ofs: the error code, the bytes
\* written by this call and the new resume offset.  The resume offset is
\* counted in output bytes already delivered.
CpuBz2Uncompress(avail, src_ofs, t) ==
  LET remaining == t.total - src_ofs IN
  IF remaining > avail
    THEN [bz_err |-> "BZ_OUTBUFF_FULL", dst_len |-> avail, src_ofs |-> src_ofs + avail]
  ELSE IF t.ending = "corrupt"
    THEN [bz_err |-> "BZ_DATA_ERROR", dst_len |-> remaining, src_ofs |-> src_ofs]
  ELSE [bz_err |-> "BZ_OK", dst_len |-> remaining, src_ofs |-> t.total]

-----------------------------------------------------------------------------
(* The idle values of the other entry points' variables.                   *)

SnElemNone ==
  [kind |-> "none", at |-> 0, offset |-> 0, blen |-> 0, pos |-> 0, left |-> 0,
   short |-> FALSE, executed |-> FALSE]

SnIdle ==
  [pc |-> "idle", srcBytes |-> <<>>, dstNull |-> FALSE, dstLen |-> 0, cur |-> 0,
   uncompressed_size |-> 0, bytes_left |-> 0, dst_pos |-> 0, dstBytes |-> <<>>,
   ret |-> NULL, elem |-> SnElemNone]

AvIdle ==
  [pc |-> "idle", schema |-> <<>>, schema_g |-> <<>>, data |-> <<>>, cur |-> 0,
   end |-> 0, row |-> 0, max_rows |-> 0, i |-> 0, array_start |-> 0,
   array_repeat_count |-> 0, array_children |-> 0, out |-> <<>>, valid |-> <<>>,
   ret |-> NULL, visited |-> <<>>, seen |-> [valid |-> <<>>, schema_g |-> <<>>],
   reads |-> {}]

KernIdle ==
  [pc |-> "idle", schema |-> <<>>, schema_g |-> <<>>, shared |-> FALSE, blocks |-> <<>>,
   avro_data |-> <<>>, min_row_size |-> 0, max_rows |-> 0, first_row |-> 0,
   warps |-> <<>>, out |-> <<>>, valid |-> <<>>, uploaded |-> <<>>]

-----------------------------------------------------------------------------
(* Initial states of the archive entry points.                             *)

GzNone == [ret |-> FALSE, dst |-> GzZero]

NoResult == [kind |-> "none", value |-> 0]

StrmNone == [avail_out |-> 0, total_out |-> 0, zerr |-> "none"]

\* rounds, produced and grown_from are history: the output-buffer-full rounds
\* so far, the bytes all decoder calls have produced, and the capacity before
\* the last growth.
BzNone ==
  [src_ofs |-> 0, dst_ofs |-> 0, dst_len |-> 0, bz_err |-> "none", rounds |-> 0,
   produced |-> 0, grown_from |-> 0]

CodecNone == [total |-> 0, ending |-> "none"]

\* The gzip inputs of io_uncompress_single_h2d carry at most MaxMidInfer bytes
\* between header and trailer pattern.
MaxMidInfer == 3

StreamTypes == {"INFER", "GZIP", "ZIP", "BZIP2", "XZ"}

\* The memory after the buffer: unreadable, or readable and holding zeros or
\* ones.
Beyonds ==
  {[mapped |-> FALSE, slack |-> <<0>>], [mapped |-> TRUE, slack |-> <<0>>],
   [mapped |-> TRUE, slack |-> <<1>>]}

H2DInputs == GzInputs(MaxMidInfer) \cup ZipInputs \cup Bz2Inputs \cup JunkInputs

InitArch ==
  /\ \/ /\ entry = "HostDecompressor_ZLIB"
        /\ raw \in GzInputs(MaxMid)
        /\ hint = "GZIP"
        /\ beyond = [mapped |-> FALSE, slack |-> <<0>>]
        /\ pc = "parse"
     \/ /\ entry = "io_uncompress_single_h2d"
        /\ raw \in H2DInputs
        /\ hint \in StreamTypes
        /\ beyond \in Beyonds
        /\ pc = "enter"
  /\ stream_type = hint
  /\ gz = GzNone
  /\ comp_data = NULL
  /\ comp_len = 0
  /\ uncomp_len = 0
  /\ dstLen = 64
  /\ result = NoResult
  /\ tried = <<>>
  /\ zip = ZipNone
  /\ dst = 0
  /\ strm = StrmNone
  /\ bz = BzNone
  /\ codec = CodecNone
  /\ snappy = SnIdle
  /\ avro = AvIdle
  /\ kern = KernIdle

-----------------------------------------------------------------------------
(* HostDecompressor_ZLIB(gz_hdr = true)::Decompress (uncomp.cpp:446-462).  *)

\* int cpu_inflate(...) (uncomp.cpp:219-240): zlib decides, from the bytes of
\* the payload, whether the stream ends well and how much it produces.
CpuInflateOutcomes(cap) ==
  {[zerr |-> "Z_OK", destLen |-> n] : n \in {0, cap}} \cup
  {[zerr |-> e, destLen |-> n] : e \in {"Z_DATA_ERROR", "Z_BUF_ERROR"}, n \in {0, cap}}

\* if (gz_hdr) { if (!ParseGZArchive(&gz, srcBytes, srcLen)) { return 0; } ... }
ZlibParse ==
  /\ entry = "HostDecompressor_ZLIB" /\ pc = "parse"
  /\ LET r == ParseGZArchive(raw) IN
     /\ gz' = r
     /\ IF r.ret
          THEN /\ comp_data' = r.dst.comp_data
               /\ comp_len' = r.dst.comp_len
               /\ pc' = "inflate"
               /\ result' = result
          ELSE /\ pc' = "done"
               /\ result' = [kind |-> "return", value |-> 0]
               /\ UNCHANGED <<comp_data, comp_len>>
  /\ UNCHANGED <<snappy, avro, kern, entry, raw, stream_type, uncomp_len, dstLen, beyond, hint, tried, zip,
                 dst, strm, bz, codec>>

\* if (0 == cpu_inflate(dstBytes, &dstLen, srcBytes, srcLen)) return dstLen; else return 0;
ZlibInflate ==
  /\ entry = "HostDecompressor_ZLIB" /\ pc = "inflate"
  /\ \E o \in CpuInflateOutcomes(dstLen) :
       /\ dstLen' = o.destLen
       /\ result' = [kind |-> "return",
                     value |-> IF o.zerr = "Z_OK" THEN o.destLen ELSE 0]
  /\ pc' = "done"
  /\ UNCHANGED <<snappy, avro, kern, entry, raw, stream_type, gz, comp_data, comp_len, uncomp_len, beyond,
                 hint, tried, zip, dst, strm, bz, codec>>

-----------------------------------------------------------------------------
(* io_uncompress_single_h2d (uncomp.cpp:295-413).                          *)

Throw == [kind |-> "throw", value |-> 0]

Mem == [buf |-> raw, slack |-> beyond.slack]

\* Where the switch on stream_type enters.
SwitchTarget(st) ==
  IF st \in {"INFER", "GZIP"} THEN "gzip"
  ELSE IF st = "ZIP" THEN "zip"
  ELSE IF st = "BZIP2" THEN "bzip2"
  ELSE "select"

AfterCase_FallThrough(st, next) == next

\* "if (stream_type != IO_UNCOMP_STREAM_TYPE_INFER) break;" at the end of a
\* case: the switch is left, or control falls through to the case next.
AfterCase(st, next) == IF st # "INFER" THEN "select" ELSE next

\* CUDF_EXPECTS(src != nullptr, ...); CUDF_EXPECTS(src_size != 0, ...); switch
H2DEnter ==
  /\ entry = "io_uncompress_single_h2d" /\ pc = "enter"
  /\ IF Len(raw) = 0
       THEN pc' = "done" /\ result' = Throw
       ELSE pc' = SwitchTarget(stream_type) /\ result' = result
  /\ UNCHANGED <<snappy, avro, kern, entry, raw, stream_type, gz, comp_data, comp_len, uncomp_len, dstLen,
                 beyond, hint, tried, zip, dst, strm, bz, codec>>

\* case IO_UNCOMP_STREAM_TYPE_INFER: case IO_UNCOMP_STREAM_TYPE_GZIP: { ... }
H2DGzip ==
  /\ entry = "io_uncompress_single_h2d" /\ pc = "gzip"
  /\ LET r == ParseGZArchive(raw)
         st == IF r.ret THEN "GZIP" ELSE stream_type
     IN /\ gz' = r
        /\ stream_type' = st
        /\ comp_data' = IF r.ret THEN r.dst.comp_data ELSE comp_data
        /\ comp_len' = IF r.ret THEN r.dst.comp_len ELSE comp_len
        /\ uncomp_len' = IF r.ret THEN ToSize(r.dst.isize) ELSE uncomp_len
        /\ pc' = AfterCase(st, "zip")
  /\ tried' = Append(tried, "gzip")
  /\ UNCHANGED <<snappy, avro, kern, entry, raw, dstLen, result, beyond, hint, zip, dst, strm, bz, codec>>

\* The zip case with the walk of the central directory.
ZipCase(mem) ==
  LET o == OpenZipArchive(mem) IN
  IF o.ret THEN ZipWalk(mem, o.za, 0, 0, o.za.oob)
  ELSE [ZipNone EXCEPT !.oob = o.za.oob]

\* case IO_UNCOMP_STREAM_TYPE_ZIP: { ... }; a read past the buffer into
\* unreadable memory ends the process.
H2DZip ==
  /\ entry = "io_uncompress_single_h2d" /\ pc = "zip"
  /\ LET z == ZipCase(Mem)
         st == IF z.selected THEN "ZIP" ELSE stream_type
     IN /\ zip' = z
        /\ IF z.oob /\ ~beyond.mapped
             THEN /\ pc' = "done"
                  /\ result' = [kind |-> "fault", value |-> 0]
                  /\ UNCHANGED <<stream_type, comp_data, comp_len, uncomp_len>>
             ELSE /\ stream_type' = st
                  /\ comp_data' = IF z.selected THEN z.comp_data ELSE comp_data
                  /\ comp_len' = IF z.selected THEN z.comp_len ELSE comp_len
                  /\ uncomp_len' = IF z.selected THEN z.uncomp_len ELSE uncomp_len
                  /\ pc' = AfterCase(st, "bzip2")
                  /\ result' = result
  /\ tried' = Append(tried, "zip")
  /\ UNCHANGED <<snappy, avro, kern, entry, raw, gz, dstLen, beyond, hint, dst, strm, bz, codec>>

\* fhdr->sig[0] == 'B' && fhdr->sig[1] == 'Z' && fhdr->sig[2] == 'h' &&
\* fhdr->blksz >= '1' && fhdr->blksz <= '9'
Bz2Matches(buf) ==
  /\ Len(buf) > 4
  /\ buf[1] = 66 /\ buf[2] = 90 /\ buf[3] = 104
  /\ buf[4] >= 49 /\ buf[4] <= 57

\* case IO_UNCOMP_STREAM_TYPE_BZIP2: ...
H2DBzip2 ==
  /\ entry = "io_uncompress_single_h2d" /\ pc = "bzip2"
  /\ LET m == Bz2Matches(raw)
         st == IF m THEN "BZIP2" ELSE stream_type
     IN /\ stream_type' = st
        /\ comp_data' = IF m THEN 0 ELSE comp_data
        /\ comp_len' = IF m THEN Len(raw) ELSE comp_len
        /\ uncomp_len' = IF m THEN 0 ELSE uncomp_len
        /\ pc' = "select"
  /\ tried' = Append(tried, "bzip2")
  /\ UNCHANGED <<snappy, avro, kern, entry, raw, gz, dstLen, result, beyond, hint, zip, dst, strm, bz, codec>>

\* if (uncomp_len <= 0) { uncomp_len = comp_len * 4 + 4096; }
SeedLen(ulen, clen) == IF ulen <= 0 THEN clen * 4 + 4096 ELSE ulen

\* After the switch: the two CUDF_EXPECTS on the selected payload, the seed of
\* the output size and the choice of the codec (uncomp.cpp:372-391, 412).
H2DSelect ==
  /\ entry = "io_uncompress_single_h2d" /\ pc = "select"
  /\ IF comp_data = NULL \/ ~(comp_len > 0)
       THEN /\ pc' = "done" /\ result' = Throw
            /\ UNCHANGED <<uncomp_len, dst, strm, bz, codec>>
     ELSE IF stream_type \in {"GZIP", "ZIP"}
       THEN /\ uncomp_len' = SeedLen(uncomp_len, comp_len)
            /\ dst' = uncomp_len'
            /\ codec' \in DeflateTruths(uncomp_len')
            /\ strm' = [avail_out |-> dst', total_out |-> 0, zerr |-> "none"]
            /\ pc' = "inflate"
            /\ UNCHANGED <<bz, result>>
     ELSE IF stream_type = "BZIP2"
       THEN /\ uncomp_len' = SeedLen(uncomp_len, comp_len)
            /\ dst' = uncomp_len'
            /\ codec' \in Bz2Truths(uncomp_len')
            /\ bz' = [BzNone EXCEPT !.bz_err = "BZ_OK"]
            /\ pc' = "bz2"
            /\ UNCHANGED <<strm, result>>
     ELSE /\ pc' = "done" /\ result' = Throw
          /\ UNCHANGED <<uncomp_len, dst, strm, bz, codec>>
  /\ UNCHANGED <<snappy, avro, kern, entry, raw, stream_type, gz, comp_data, comp_len, dstLen, beyond, hint,
                 tried, zip>>

\* One pass of the do-while of cpu_inflate_vector (uncomp.cpp:264-280); the
\* first pass starts with inflateInit2.  When the loop ends, dst is trimmed
\* to total_out and strm.zerr keeps the last zerr.
InflatePass(st, size, t) ==
  LET grown == IF st.avail_out = 0 THEN st.total_out + InflateGrow ELSE size
      st1 == IF st.avail_out = 0 THEN [st EXCEPT !.avail_out = grown - st.total_out] ELSE st
      st2 == Inflate(st1, t)
      again == /\ st2.zerr \in {"Z_BUF_ERROR", "Z_OK"}
               /\ st2.avail_out = 0
               /\ st2.total_out = grown
  IN [strm |-> st2, again |-> again, dst |-> IF again THEN grown ELSE st2.total_out]

H2DInflate ==
  /\ entry = "io_uncompress_single_h2d" /\ pc = "inflate"
  /\ IF codec.ending = "nomem"
       THEN /\ dst' = 0
            /\ strm' = [strm EXCEPT !.zerr = "Z_MEM_ERROR"]
            /\ pc' = "inflated"
       ELSE LET r == InflatePass(strm, dst, codec) IN
            /\ dst' = r.dst
            /\ strm' = r.strm
            /\ pc' = IF r.again THEN "inflate" ELSE "inflated"
  /\ UNCHANGED <<snappy, avro, kern, entry, raw, stream_type, gz, comp_data, comp_len, uncomp_len, dstLen,
                 result, beyond, hint, tried, zip, bz, codec>>

InflateVectorReturn_Masked(zerr) == "Z_OK"

\* return (zerr == Z_STREAM_END) ? Z_OK : zerr;  Z_OK is 0.
InflateVectorReturn(zerr) == IF zerr = "Z_STREAM_END" THEN "Z_OK" ELSE zerr

\* CUDF_EXPECTS(cpu_inflate_vector(dst, comp_data, comp_len) == 0, ...); return dst;
H2DInflateReturn ==
  /\ entry = "io_uncompress_single_h2d" /\ pc = "inflated"
  /\ result' = IF InflateVectorReturn(strm.zerr) = "Z_OK"
                 THEN [kind |-> "return", value |-> dst]
                 ELSE Throw
  /\ pc' = "done"
  /\ UNCHANGED <<snappy, avro, kern, entry, raw, stream_type, gz, comp_data, comp_len, uncomp_len, dstLen,
                 beyond, hint, tried, zip, dst, strm, bz, codec>>

\* One pass of the do-while of the bzip2 branch (uncomp.cpp:392-407).
H2DBz2 ==
  /\ entry = "io_uncompress_single_h2d" /\ pc = "bz2"
  /\ LET r == CpuBz2Uncompress(uncomp_len - bz.dst_ofs, bz.src_ofs, codec) IN
     IF r.bz_err = "BZ_OUTBUFF_FULL"
       THEN /\ bz' = [src_ofs |-> r.src_ofs, dst_ofs |-> r.dst_len,
                      dst_len |-> uncomp_len + (uncomp_len \div 2), bz_err |-> r.bz_err,
                      rounds |-> bz.rounds + 1, produced |-> bz.produced + r.dst_len,
                      grown_from |-> uncomp_len]
            /\ dst' = uncomp_len + (uncomp_len \div 2)
            /\ uncomp_len' = uncomp_len + (uncomp_len \div 2)
            /\ pc' = "bz2"
     ELSE IF r.bz_err = "BZ_OK"
       THEN /\ bz' = [bz EXCEPT !.src_ofs = r.src_ofs, !.dst_len = r.dst_len,
                                !.bz_err = r.bz_err, !.produced = @ + r.dst_len]
            /\ uncomp_len' = r.dst_len
            /\ dst' = r.dst_len
            /\ pc' = "bz2done"
     ELSE /\ bz' = [bz EXCEPT !.src_ofs = r.src_ofs, !.dst_len = r.dst_len,
                              !.bz_err = r.bz_err, !.produced = @ + r.dst_len]
          /\ UNCHANGED <<uncomp_len, dst>>
          /\ pc' = "bz2done"
  /\ UNCHANGED <<snappy, avro, kern, entry, raw, stream_type, gz, comp_data, comp_len, dstLen, result, beyond,
                 hint, tried, zip, strm, codec>>

\* CUDF_EXPECTS(bz_err == 0, "Decompression: error in stream"); return dst;
H2DBz2Return ==
  /\ entry = "io_uncompress_single_h2d" /\ pc = "bz2done"
  /\ result' = IF bz.bz_err = "BZ_OK" THEN [kind |-> "return", value |-> dst] ELSE Throw
  /\ pc' = "done"
  /\ UNCHANGED <<snappy, avro, kern, entry, raw, stream_type, gz, comp_data, comp_len, uncomp_len, dstLen,
                 beyond, hint, tried, zip, dst, strm, bz, codec>>

NextArch ==
  \/ ZlibParse
  \/ ZlibInflate
  \/ H2DEnter
  \/ H2DGzip
  \/ H2DZip
  \/ H2DBzip2
  \/ H2DSelect
  \/ H2DInflate
  \/ H2DInflateReturn
  \/ H2DBz2
  \/ H2DBz2Return

Spec == InitArch /\ [][NextArch]_vars

-----------------------------------------------------------------------------
(* Properties of the archive parsers and of io_uncompress_single_h2d.      *)

IsH2D == entry = "io_uncompress_single_h2d"

\* The span [o, o + n) lies inside a buffer of len bytes.
SpanInside(o, n, len) == o >= 0 /\ n >= 0 /\ o + n <= len

\* C1: whenever ParseGZArchive returns true, and whenever a gzip, zip or bzip2
\* payload is selected, the payload span [comp_data, comp_data + comp_len)
\* lies entirely inside the input buffer [raw, raw + len).
C1_PayloadInsideInput ==
  /\ gz.ret => SpanInside(gz.dst.comp_data, gz.dst.comp_len, Len(raw))
  /\ zip.selected => SpanInside(zip.comp_data, zip.comp_len, Len(raw))
  /\ comp_data # NULL => SpanInside(comp_data, comp_len, Len(raw))

\* A zip payload was selected under INFER after the gzip parser had failed.
C1_Witness ==
  /\ IsH2D /\ hint = "INFER" /\ stream_type = "ZIP"
  /\ comp_data = zip.comp_data /\ comp_len = 3 /\ comp_data + comp_len < Len(raw)

\* Length, terminator included, of the zero-terminated string at offset at
\* of buf; 0 when no zero byte follows.
StrZ(buf, at) ==
  LET Z == {k \in 0..(Len(buf) - at - 1) : buf[at + k + 1] = 0}
  IN IF Z = {} THEN 0 ELSE 1 + (CHOOSE k \in Z : \A j \in Z : k <= j)

AllFourFlags(f) == BitSet(f, fextra) /\ BitSet(f, fname) /\ BitSet(f, fcomment) /\ BitSet(f, fhcrc)

\* C2: for a gzip buffer whose flags set extra, name, comment and header CRC,
\* an accepted parse returns the payload that starts right after the header
\* CRC, of length len - 10 - (2 + xlen) - name - comment - 2 - 8 (name and
\* comment counted with their terminators), and crc32 and isize are the last
\* 8 bytes of the buffer read as two little-endian 32-bit values.
C2_GzLayoutAllFlags ==
  (gz.ret /\ AllFourFlags(raw[4])) =>
    LET n == Len(raw)
        xlen == raw[11] + 256 * raw[12]
        nameAt == GzHeaderSize + 2 + xlen
        nlen == StrZ(raw, nameAt)
        clen == StrZ(raw, nameAt + nlen)
    IN /\ nlen > 0 /\ clen > 0
       /\ gz.dst.comp_data = nameAt + nlen + clen + 2
       /\ gz.dst.comp_len = n - 10 - (2 + xlen) - nlen - clen - 2 - 8
       /\ <<gz.dst.crc32.lo % 256, gz.dst.crc32.lo \div 256,
            gz.dst.crc32.hi % 256, gz.dst.crc32.hi \div 256>> = SubSeq(raw, n - 7, n - 4)
       /\ <<gz.dst.isize.lo % 256, gz.dst.isize.lo \div 256,
            gz.dst.isize.hi % 256, gz.dst.isize.hi \div 256>> = SubSeq(raw, n - 3, n)

\* An accepted buffer with all four flags, a one-character name and a payload
\* longer than one byte.
C2_Witness ==
  /\ gz.ret /\ AllFourFlags(raw[4])
  /\ gz.dst.fcomment - gz.dst.fname = 2
  /\ gz.dst.crc32.hi >= 32768

\* The gzip layout, by offsets: header, the flagged optional fields in the
\* order extra, name, comment, header CRC, at least one payload byte, trailer.
GzWellFormed(buf) ==
  /\ Len(buf) >= GzHeaderSize + GzTrailerSize
  /\ buf[1] = 31 /\ buf[2] = 139
  /\ buf[3] = 8
  /\ BitSet(buf[4], fextra) =>
       Len(buf) >= 12 /\ 12 + buf[11] + 256 * buf[12] <= Len(buf)
  /\ LET a == IF BitSet(buf[4], fextra) THEN 12 + buf[11] + 256 * buf[12] ELSE 10
         nl == IF BitSet(buf[4], fname) THEN StrZ(buf, a) ELSE 0
         cl == IF BitSet(buf[4], fcomment) THEN StrZ(buf, a + nl) ELSE 0
         hl == IF BitSet(buf[4], fhcrc) THEN 2 ELSE 0
     IN /\ BitSet(buf[4], fname) => nl > 0
        /\ BitSet(buf[4], fcomment) => cl > 0
        /\ a + nl + cl + hl + 1 + GzTrailerSize <= Len(buf)

\* C3: ParseGZArchive returns true for no buffer that is too short, has a
\* wrong magic or method, has a flagged optional field truncated or
\* unterminated, leaves fewer than 8 bytes for the trailer, or has an empty
\* payload.
C3_GzFailsClosed == gz.ret => GzWellFormed(raw)

\* The parser has run and refused a buffer with a good header and a trailer
\* whose flagged name runs into the trailer.
C3_Witness ==
  /\ entry = "HostDecompressor_ZLIB" /\ pc = "done" /\ ~gz.ret
  /\ Len(raw) >= 26 /\ raw[1] = 31 /\ raw[2] = 139 /\ raw[3] = 8 /\ raw[4] = fname
  /\ gz.dst.fhdr = 0

\* The parser that handles a stream type.
ParserOf(st) == IF st = "GZIP" THEN "gzip" ELSE IF st = "ZIP" THEN "zip" ELSE "bzip2"

IsPrefix(s, t) == Len(s) <= Len(t) /\ s = SubSeq(t, 1, Len(s))

\* C4: under INFER the parsers run in the order gzip, zip, bzip2, a later one
\* only when every earlier one failed to match, and the first match is the
\* format used; under an explicit hint only that type's parser runs, and no
\* other format is tried when it does not match.
C4_DetectionOrder ==
  IsH2D =>
    /\ hint = "INFER" =>
         /\ IsPrefix(tried, <<"gzip", "zip", "bzip2">>)
         /\ Len(tried) >= 2 => ~gz.ret
         /\ Len(tried) >= 3 => ~zip.selected
         /\ gz.ret => stream_type = "GZIP" /\ comp_data = gz.dst.comp_data
         /\ (zip.selected /\ result.kind # "fault") =>
              stream_type = "ZIP" /\ comp_data = zip.comp_data
         /\ (pc \in {"select", "inflate", "inflated", "bz2", "bz2done"}
               /\ stream_type = "INFER") => tried = <<"gzip", "zip", "bzip2">>
         /\ stream_type # "INFER" => tried[Len(tried)] = ParserOf(stream_type)
    /\ hint \in {"GZIP", "ZIP", "BZIP2"} =>
         /\ stream_type = hint
         /\ IsPrefix(tried, <<ParserOf(hint)>>)
         /\ pc = "select" => tried = <<ParserOf(hint)>>
    /\ hint = "XZ" => tried = <<>>

\* Under INFER, bzip2 was matched after gzip and zip had both failed.
C4_Witness ==
  /\ IsH2D /\ hint = "INFER" /\ pc = "select" /\ stream_type = "BZIP2"
  /\ tried = <<"gzip", "zip", "bzip2">>

\* Entry vectors with exactly one deflate entry among stored entries.
OneDeflateAmongStored ==
  {kinds \in UNION {[1..n -> {"stored", "deflate"}] : n \in 2..MaxZipEntries} :
     Cardinality({k \in DOMAIN kinds : kinds[k] = "deflate"}) = 1}

\* C5: for a single-disk archive of stored entries and one deflate entry with
\* non-zero sizes and a valid local header, the zip case selects that entry's
\* compressed bytes and its declared uncompressed size, wherever the entry
\* stands in the central directory.
C5_ZipPicksDeflateEntry ==
  (IsH2D /\ Len(raw) > 100 /\ "zip" \in {tried[k] : k \in DOMAIN tried}) =>
    \A kinds \in OneDeflateAmongStored :
      raw = ZipArchive(kinds, "none") =>
        LET d == CHOOSE k \in DOMAIN kinds : kinds[k] = "deflate" IN
        /\ zip.selected
        /\ stream_type = "ZIP"
        /\ comp_len = Len(ZipData("deflate", d))
        /\ SubSeq(raw, comp_data + 1, comp_data + comp_len) = ZipData("deflate", d)
        /\ pc = "select" => uncomp_len = ZipUsize("deflate", d)

\* The deflate entry is the last of three and was selected.
C5_Witness ==
  /\ IsH2D /\ pc = "select" /\ zip.selected /\ zip.visited = 3
  /\ raw = ZipArchive(<<"stored", "stored", "deflate">>, "none")
  /\ uncomp_len = 43

\* C9: io_uncompress_single_h2d fails whenever no parser selected a payload
\* (unrecognised input, a hint whose parser does not match, an unsupported
\* hint) and whenever the codec reports an error, and a failing call hands
\* no decompressed bytes to the caller.
C9_FailureReported ==
  (IsH2D /\ pc = "done" /\ result.kind # "fault") =>
    /\ (comp_data = NULL \/ comp_len = 0) => result.kind = "throw"
    /\ hint \notin {"INFER", "GZIP", "ZIP", "BZIP2"} => result.kind = "throw"
    /\ strm.zerr \in {"Z_DATA_ERROR", "Z_BUF_ERROR", "Z_MEM_ERROR"} => result.kind = "throw"
    /\ bz.bz_err \notin {"none", "BZ_OK"} => result.kind = "throw"
    /\ result.kind = "throw" => result.value = 0
    /\ result.kind \in {"throw", "return"}

\* A call that selected a payload and failed in the codec.
C9_Witness ==
  /\ IsH2D /\ pc = "done" /\ result.kind = "throw"
  /\ comp_data # NULL /\ strm.zerr = "Z_DATA_ERROR" /\ strm.total_out > 0

\* C15: cpu_inflate_vector goes on calling inflate, growing the destination
\* by 2^30 bytes each time it is full, until the end-of-stream marker is
\* reached or the decoder fails; it returns 0 only when the end-of-stream
\* marker was reached, and the destination then has the length of the bytes
\* produced.
C15_InflateVectorSuccessOnlyAtStreamEnd ==
  (IsH2D /\ pc = "inflated") =>
    /\ strm.zerr \in {"Z_STREAM_END", "Z_DATA_ERROR", "Z_BUF_ERROR", "Z_MEM_ERROR"}
    /\ InflateVectorReturn(strm.zerr) = "Z_OK" =>
         (codec.ending = "end" /\ strm.total_out = codec.total)
    /\ dst = (IF strm.zerr = "Z_MEM_ERROR" THEN 0 ELSE strm.total_out)

\* C16: in the bzip2 branch of io_uncompress_single_h2d every
\* output-buffer-full round grows the destination by 50%, the next decoder
\* call resumes at the source offset already consumed and writes right after
\* all the bytes the earlier rounds produced, and a successful call returns a
\* buffer whose length is the number of bytes produced over all rounds.
C16_Bz2RoundsAppend ==
  (IsH2D /\ stream_type = "BZIP2") =>
    /\ (pc = "bz2" /\ bz.rounds > 0) =>
         /\ uncomp_len = bz.grown_from + (bz.grown_from \div 2)
         /\ dst = uncomp_len
         /\ bz.src_ofs = bz.produced
         /\ bz.dst_ofs = bz.produced
    /\ (pc = "done" /\ result.kind = "return") =>
         /\ result.value = bz.produced
         /\ bz.produced = codec.total

\* C23: while locating and walking a zip archive every byte read lies inside
\* the input buffer: no read of OpenZipArchive or of the walk of the central
\* directory falls past the end of the buffer, and so none can fault.
C23_ZipReadsInsideBuffer == ~zip.oob /\ result.kind # "fault"

-----------------------------------------------------------------------------
(* HostDecompressor_SNAPPY::Decompress (uncomp.cpp:474-559).               *)
(* snappy.dstBytes holds the bytes written so far, dstBytes[0 .. dst_pos). *)

\* uint32_t values of 2^30 and more are all kept as SnHuge: every dstLen of
\* the model is smaller, so the code's comparisons cannot tell them apart.
SnHuge == 1073741824

\* The uint32_t with 16-bit halves lo and hi.
SnU32(lo, hi) == IF hi >= 16384 THEN SnHuge ELSE hi * 65536 + lo

\* do { c = *cur++; ... } while (c > 0x7f && cur < end);  (lines 488-495)
RECURSIVE SnVarint(_, _, _, _)
SnVarint(src, cur, l, size) ==
  LET c == src[cur + 1]
      lo7 == c % 128
  IN IF l >= 28 /\ c > 15 THEN [ok |-> FALSE, size |-> size, cur |-> cur + 1]
     ELSE LET s == IF l >= 28 /\ lo7 >= 4 THEN SnHuge ELSE size + lo7 * (2 ^ l)
          IN IF c > 127 /\ cur + 1 < Len(src)
               THEN SnVarint(src, cur + 1, l + 7, s)
               ELSE [ok |-> TRUE, size |-> s, cur |-> cur + 1]

\* Lines 483-503.
SnappyVarint ==
  /\ snappy.pc = "enter"
  /\ LET src == snappy.srcBytes
         v == SnVarint(src, 0, 0, 0)
     IN snappy' =
          IF snappy.dstNull \/ Len(src) < 1
            THEN [snappy EXCEPT !.pc = "done", !.ret = 0]
          ELSE IF ~v.ok
            THEN [snappy EXCEPT !.pc = "done", !.ret = 0, !.cur = v.cur]
          ELSE IF v.size = 0 \/ v.size > snappy.dstLen \/ v.cur >= Len(src)
            THEN [snappy EXCEPT !.pc = "done", !.ret = 0, !.cur = v.cur,
                                !.uncompressed_size = v.size]
          ELSE [snappy EXCEPT !.pc = "element", !.cur = v.cur,
                              !.uncompressed_size = v.size,
                              !.bytes_left = v.size, !.dst_pos = 0]
  /\ UNCHANGED <<archVars, avro, kern>>

SnLoop_NoEndTest(s) ==
  [s EXCEPT !.pc = IF s.bytes_left # 0 THEN "element" ELSE "return"]

\* } while (bytes_left && cur < end);  (line 557)
SnLoop(s) ==
  [s EXCEPT !.pc = IF s.bytes_left # 0 /\ s.cur < Len(s.srcBytes) THEN "element" ELSE "return"]

\* Lines 509-527: the operands of the copy element whose tag is at offset at.
SnCopyDecode(src, at) ==
  LET tag == src[at + 1]
      end == Len(src)
      cur == at + 1
      none == [short |-> TRUE, cur |-> cur, offset |-> 0, blen |-> 0]
  IN IF (tag \div 2) % 2 = 1
       THEN IF cur + 2 > end THEN none
            ELSE IF tag % 2 = 1
              THEN IF cur + 4 > end THEN [none EXCEPT !.cur = cur + 2]
                   ELSE [short |-> FALSE, cur |-> cur + 4,
                         offset |-> SnU32(LE16(src, cur), LE16(src, cur + 2)),
                         blen |-> (tag \div 4) + 1]
            ELSE [short |-> FALSE, cur |-> cur + 2, offset |-> LE16(src, cur),
                  blen |-> (tag \div 4) + 1]
     ELSE IF cur >= end THEN none
          ELSE [short |-> FALSE, cur |-> cur + 1,
                offset |-> (tag \div 32) * 256 + src[cur + 1],
                blen |-> ((tag \div 4) % 8) + 4]

\* do { dstBytes[dst_pos] = dstBytes[dst_pos - offset]; dst_pos++; } while (--blen);
SnCopyBytes(dstBytes, dst_pos, offset, blen) ==
  [k \in 1..blen |-> dstBytes[dst_pos - offset + ((k - 1) % offset) + 1]]

\* Lines 507-533, then the loop test.
SnappyCopy ==
  /\ snappy.pc = "element"
  /\ snappy.srcBytes[snappy.cur + 1] % 4 # 0
  /\ LET d == SnCopyDecode(snappy.srcBytes, snappy.cur)
         brk == d.short \/ d.offset = 0 \/ d.offset > snappy.dst_pos
                  \/ d.blen > snappy.bytes_left
         e == [kind |-> "copy", at |-> snappy.cur, offset |-> d.offset, blen |-> d.blen,
               pos |-> snappy.dst_pos, left |-> snappy.bytes_left, short |-> d.short,
               executed |-> ~brk]
     IN snappy' =
          IF brk THEN [snappy EXCEPT !.pc = "return", !.cur = d.cur, !.elem = e]
          ELSE SnLoop([snappy EXCEPT
                 !.cur = d.cur, !.elem = e,
                 !.bytes_left = @ - d.blen,
                 !.dst_pos = @ + d.blen,
                 !.dstBytes = @ \o SnCopyBytes(snappy.dstBytes, snappy.dst_pos, d.offset, d.blen)])
  /\ UNCHANGED <<archVars, avro, kern>>

SnLiteralDecode_NoIncrement(src, at) ==
  LET f == src[at + 1] \div 4
      cur == at + 1
      num_bytes == f - 59
      b(k) == IF k < num_bytes THEN src[cur + k + 1] ELSE 0
  IN IF f >= 60
       THEN IF cur + num_bytes >= Len(src) THEN [short |-> TRUE, cur |-> cur, blen |-> 0]
            ELSE [short |-> FALSE, cur |-> cur + num_bytes,
                  blen |-> SnU32(b(0) + 256 * b(1), b(2) + 256 * b(3))]
     ELSE [short |-> FALSE, cur |-> cur, blen |-> f + 1]

\* Lines 536-550: the length of the literal element whose tag is at offset
\* at; blen++ wraps 0xffffffff to 0.
SnLiteralDecode(src, at) ==
  LET f == src[at + 1] \div 4
      cur == at + 1
      num_bytes == f - 59
      b(k) == IF k < num_bytes THEN src[cur + k + 1] ELSE 0
      lo == b(0) + 256 * b(1)
      hi == b(2) + 256 * b(3)
  IN IF f >= 60
       THEN IF cur + num_bytes >= Len(src) THEN [short |-> TRUE, cur |-> cur, blen |-> 0]
            ELSE [short |-> FALSE, cur |-> cur + num_bytes,
                  blen |-> IF lo = 65535 /\ hi = 65535 THEN 0
                           ELSE IF hi >= 16384 THEN SnHuge ELSE hi * 65536 + lo + 1]
     ELSE [short |-> FALSE, cur |-> cur, blen |-> f + 1]

\* Lines 535-556, then the loop test.
SnappyLiteral ==
  /\ snappy.pc = "element"
  /\ snappy.srcBytes[snappy.cur + 1] % 4 = 0
  /\ LET src == snappy.srcBytes
         d == SnLiteralDecode(src, snappy.cur)
         brk == d.short \/ d.cur + d.blen > Len(src) \/ d.blen > snappy.bytes_left
         e == [kind |-> "literal", at |-> snappy.cur, offset |-> 0, blen |-> d.blen,
               pos |-> snappy.dst_pos, left |-> snappy.bytes_left, short |-> d.short,
               executed |-> ~brk]
     IN snappy' =
          IF brk THEN [snappy EXCEPT !.pc = "return", !.cur = d.cur, !.elem = e]
          ELSE SnLoop([snappy EXCEPT
                 !.cur = d.cur + d.blen, !.elem = e,
                 !.bytes_left = @ - d.blen,
                 !.dst_pos = @ + d.blen,
                 !.dstBytes = @ \o SubSeq(src, d.cur + 1, d.cur + d.blen)])
  /\ UNCHANGED <<archVars, avro, kern>>

\* return (bytes_left) ? 0 : uncompressed_size;  (line 558)
SnappyReturn ==
  /\ snappy.pc = "return"
  /\ snappy' = [snappy EXCEPT !.pc = "done",
                  !.ret = IF snappy.bytes_left # 0 THEN 0 ELSE snappy.uncompressed_size]
  /\ UNCHANGED <<archVars, avro, kern>>

-----------------------------------------------------------------------------
(* The calls of HostDecompressor_SNAPPY::Decompress that are explored.     *)

\* Streams are a length prefix followed by at most MaxElems elements.
MaxElems == 2

\* Length prefixes: 1, 5, 6, 2 in two bytes, 0, 2^32 - 1, and a fifth byte
\* above 0x0f.
SnVarints ==
  {<<1>>, <<5>>, <<6>>, <<130, 0>>, <<0>>, <<255, 255, 255, 255, 15>>,
   <<255, 255, 255, 255, 16>>}

\* Literals of 1 and 2 bytes, a literal with one length byte, literals with
\* four length bytes 0xffffffff and 0x40000000; copies with 1-byte, 2-byte
\* and 4-byte offsets 0, 1, 2 and 0x80000001.
SnElems ==
  {<<0, 7>>, <<4, 8, 9>>, <<240, 1, 5, 6>>, <<252, 255, 255, 255, 255>>,
   <<252, 0, 0, 0, 64, 1>>,
   <<1, 0>>, <<1, 1>>, <<1, 2>>,
   <<2, 1, 0>>,
   <<3, 1, 0, 0, 0>>, <<3, 1, 0, 0, 128>>}

RECURSIVE SnElemSeqs(_)
SnElemSeqs(n) ==
  IF n = 0 THEN {<<>>}
  ELSE LET shorter == SnElemSeqs(n - 1)
       IN shorter \cup {t \o e : t \in shorter, e \in SnElems}

\* Every non-empty prefix of every stream: whole streams and truncated ones.
SnMixedStreams ==
  LET whole == {v \o t : v \in SnVarints, t \in SnElemSeqs(MaxElems)}
  IN UNION {{SubSeq(w, 1, n) : n \in 1..Len(w)} : w \in whole}

SnDstLens == {1, 6}

\* The lengths of the single-literal streams.
SnLiteralLens == {1, 2, 59, 60, 61, 256, 257, 300, 65536, 65537, 70000}

SnLiteralData(L) == [k \in 1..L |-> (k * 7 + L) % 256]

\* The length prefix of L.
RECURSIVE SnEncVarint(_)
SnEncVarint(L) == IF L < 128 THEN <<L>> ELSE <<128 + (L % 128)>> \o SnEncVarint(L \div 128)

\* The n low bytes of v, little-endian.
RECURSIVE SnLEBytes(_, _)
SnLEBytes(v, n) == IF n = 0 THEN <<>> ELSE <<v % 256>> \o SnLEBytes(v \div 256, n - 1)

\* The literal tag of a run of L bytes with n trailing length bytes (n = 0:
\* the length is in the tag).
SnLiteralTag(L, n) ==
  IF n = 0 THEN <<(L - 1) * 4>> ELSE <<(59 + n) * 4>> \o SnLEBytes(L - 1, n)

\* The ways to encode a literal of L bytes.
SnEncodings(L) ==
  {n \in 0..4 : IF n = 0 THEN L <= 60 ELSE (n = 4 \/ L - 1 < 256 ^ n)}

SnLiteralStream(L, n) == SnEncVarint(L) \o SnLiteralTag(L, n) \o SnLiteralData(L)

SnCalls ==
  {[srcBytes |-> w, dstLen |-> c, dstNull |-> FALSE] : w \in SnMixedStreams, c \in SnDstLens}
  \cup {[srcBytes |-> <<>>, dstLen |-> 6, dstNull |-> FALSE],
        [srcBytes |-> <<1, 0, 7>>, dstLen |-> 6, dstNull |-> TRUE]}
  \cup {[srcBytes |-> SnLiteralStream(t[1], t[2]), dstLen |-> t[1] - t[3],
         dstNull |-> FALSE] :
          t \in {u \in SnLiteralLens \X (0..4) \X {0, 1} : u[2] \in SnEncodings(u[1])}}

\* The archive entry points are not running.
ArchIdle ==
  /\ entry = "idle"
  /\ raw = <<>>
  /\ hint = "INFER"
  /\ beyond = [mapped |-> FALSE, slack |-> <<0>>]
  /\ pc = "idle"
  /\ stream_type = hint
  /\ gz = GzNone
  /\ comp_data = NULL
  /\ comp_len = 0
  /\ uncomp_len = 0
  /\ dstLen = 0
  /\ result = NoResult
  /\ tried = <<>>
  /\ zip = ZipNone
  /\ dst = 0
  /\ strm = StrmNone
  /\ bz = BzNone
  /\ codec = CodecNone

InitSnappy ==
  /\ ArchIdle
  /\ avro = AvIdle
  /\ kern = KernIdle
  /\ snappy \in {[SnIdle EXCEPT !.pc = "enter", !.srcBytes = c.srcBytes,
                                !.dstLen = c.dstLen, !.dstNull = c.dstNull] : c \in SnCalls}

NextSnappy ==
  \/ SnappyVarint
  \/ SnappyCopy
  \/ SnappyLiteral
  \/ SnappyReturn

SpecSnappy == InitSnappy /\ [][NextSnappy]_vars

-----------------------------------------------------------------------------
(* Properties of HostDecompressor_SNAPPY::Decompress.                      *)

\* C6: Decompress returns a non-zero value, the declared length, only when
\* the full declared length has been produced and no unread source bytes
\* remain after the last element; otherwise it returns 0.
C6_SuccessOnlyWhenSourceExhausted ==
  (snappy.pc = "done" /\ snappy.ret # 0) =>
    /\ snappy.ret = snappy.uncompressed_size
    /\ snappy.dst_pos = snappy.uncompressed_size
    /\ Len(snappy.dstBytes) = snappy.uncompressed_size
    /\ snappy.cur = Len(snappy.srcBytes)

\* The run length a literal element declares on the wire: the tag field plus
\* one, or the value of the trailing length bytes plus one (2^30 and more are
\* all given as SnHuge).
SnWireLiteralLen(src, at) ==
  LET f == src[at + 1] \div 4
      n == f - 59
      b(k) == IF k < n THEN src[at + k + 2] ELSE 0
  IN IF f < 60 THEN f + 1
     ELSE IF b(3) >= 64 THEN SnHuge
     ELSE b(0) + 256 * b(1) + 65536 * b(2) + 16777216 * b(3) + 1

\* The last element decoded is one the format forbids here: a copy whose
\* offset is 0 or beyond the output position, an element longer than the
\* remaining declared length, or an element whose bytes run past the source.
SnBadElement ==
  LET e == snappy.elem
      src == snappy.srcBytes
      f == src[e.at + 1] \div 4
  IN /\ e.kind # "none"
     /\ \/ e.short
        \/ e.kind = "copy" /\ (e.offset < 1 \/ e.offset > e.pos \/ e.blen > e.left)
        \/ /\ e.kind = "literal"
           /\ \/ SnWireLiteralLen(src, e.at) > e.left
              \/ e.at + 1 + (IF f >= 60 THEN f - 59 ELSE 0) + SnWireLiteralLen(src, e.at)
                   > Len(src)

\* C7: a copy element is executed only when 1 <= offset <= output position;
\* a copy with offset 0 or beyond the output position, an element longer than
\* the remaining declared length, and an element whose bytes run past the end
\* of the source all end the decoding and make Decompress return 0.
C7_BadElementReturnsZero ==
  /\ (snappy.elem.kind = "copy" /\ snappy.elem.executed) =>
       (1 <= snappy.elem.offset /\ snappy.elem.offset <= snappy.elem.pos)
  /\ SnBadElement =>
       /\ snappy.pc \in {"return", "done"}
       /\ snappy.pc = "done" => snappy.ret = 0

SnStreamLen(L, n) == Len(SnEncVarint(L)) + 1 + n + L

\* C8: a stream of the length prefix L and one literal element of L bytes
\* decodes to exactly those L bytes, for every L of SnLiteralLens (59, 60, 300
\* and 70000 among them) and every way to encode the run: in the tag
\* (field L - 1 < 60), or in n = 1..4 trailing little-endian bytes of value
\* L - 1 after the tag field 59 + n.
C8_LiteralRoundTrip ==
  snappy.pc = "done" =>
  \A L \in SnLiteralLens : \A n \in SnEncodings(L) :
    (/\ snappy.dstLen >= L
     /\ Len(snappy.srcBytes) = SnStreamLen(L, n)
     /\ snappy.srcBytes = SnLiteralStream(L, n)) =>
       /\ snappy.ret = L
       /\ snappy.dstBytes = SnLiteralData(L)
       /\ snappy.elem.kind = "literal" /\ snappy.elem.executed
       /\ snappy.elem.blen = L
       /\ snappy.elem.at + 1 + n + L = snappy.cur
       /\ snappy.cur = Len(snappy.srcBytes)

\* The literal of 70000 bytes with three length bytes was decoded.
C8_Witness ==
  /\ snappy.pc = "done" /\ snappy.ret = 70000
  /\ Len(snappy.dstBytes) = 70000
  /\ snappy.srcBytes[4] = 248

\* The destination indexes the last element wrote, in order.
SnWrites ==
  LET e == snappy.elem
  IN IF e.kind # "none" /\ e.executed THEN {e.pos + k : k \in 0..(e.blen - 1)} ELSE {}

\* The source offsets the memcpy of the last element read (line 552).
SnLiteralReads ==
  LET e == snappy.elem
  IN IF e.kind = "literal" /\ e.executed
       THEN {snappy.cur - e.blen + k : k \in 0..(e.blen - 1)} ELSE {}

\* C21: at every element boundary dst_pos + bytes_left = uncompressed_size
\* <= dstLen and the bytes written so far are dstBytes[0 .. dst_pos); every
\* destination write of an element is at an index below uncompressed_size,
\* every back-reference read of a copy is at an index in [0, write index),
\* and every source byte read lies in [0, srcLen): the tag of an element is
\* read at cur < srcLen, the operand bytes and the literal run end at the
\* new cur <= srcLen.
C21_SnappyStaysInBounds ==
  LET e == snappy.elem
      end == Len(snappy.srcBytes)
  IN /\ snappy.pc \in {"element", "return"} =>
          /\ snappy.dst_pos + snappy.bytes_left = snappy.uncompressed_size
          /\ snappy.uncompressed_size <= snappy.dstLen
          /\ Len(snappy.dstBytes) = snappy.dst_pos
     /\ snappy.pc = "element" => snappy.cur < end
     /\ snappy.cur <= end
     /\ e.kind # "none" => (e.at < end /\ e.at < snappy.cur)
     /\ \A w \in SnWrites : 0 <= w /\ w < snappy.uncompressed_size
     /\ e.kind = "copy" => \A w \in SnWrites : 0 <= w - e.offset /\ w - e.offset < w
     /\ \A r \in SnLiteralReads : e.at < r /\ r < end

\* A copy whose run overlaps its own output (offset 1, length 4) was executed
\* after a literal of one byte, leaving one byte of the declared length.
C21_Witness ==
  /\ snappy.pc = "return"
  /\ snappy.elem.kind = "copy" /\ snappy.elem.executed
  /\ snappy.elem.offset < snappy.elem.blen
  /\ snappy.dst_pos = 5 /\ snappy.bytes_left = 1

-----------------------------------------------------------------------------
(* avro_decode_row (avro_gpu.cu:68-215), one call for one row.             *)
(* avro.schema is the schema the row is decoded with, avro.schema_g[j] the  *)
(* count field of the global schema entry j, avro.out[j] the output buffer  *)
(* behind the dataptr of entry j (row -> value) and avro.valid[j] the rows  *)
(* whose bit is set in the validity mask behind the dataptr of entry j.     *)
(* Sequences are 1-based: the code's schema[i] is avro.schema[i + 1].       *)
(* avro.visited is the history of the call: for every pass of the for loop  *)
(* that reaches the switch, the entry i switched on and the cursor there.   *)
(* avro.seen holds the validity masks and null counters as they were when   *)
(* the call began: what a plain load at that time returned.                 *)
(* avro.reads is the set of the offsets of avro.data that the call has      *)
(* dereferenced so far.                                                     *)

\* enum type_kind_e, in declaration order.
AvKinds ==
  <<"not_set", "null", "boolean", "int", "long", "float", "double", "bytes", "string",
    "enum", "record", "union", "array">>

AvOrd(kind) == CHOOSE k \in DOMAIN AvKinds : AvKinds[k] = kind

\* schema[i].kind >= type_record
AvNested(kind) == AvOrd(kind) >= AvOrd("record")

\* The global dictionary: (first, second) pairs.
AvDictionary == <<[first |-> 100, second |-> 3], [first |-> 103, second |-> 2]>>

AvZigzag_Unsigned(u) == u \div 2

\* (int64_t)((u >> 1u) ^ -(int64_t)(u & 1))  (line 51)
AvZigzag(u) == IF u % 2 = 0 THEN u \div 2 ELSE -(u \div 2) - 1

\* while (cur < end) { c = *cur++; u += (c & 0x7f) * scale; ... }  (lines 43-48)
RECURSIVE AvVarintMore(_, _, _, _, _)
AvVarintMore(data, cur, end, u, scale) ==
  IF cur < end
    THEN LET c == data[cur + 1]
             u2 == u + (c % 128) * scale
         IN IF c < 128 THEN [u |-> u2, cur |-> cur + 1]
            ELSE AvVarintMore(data, cur + 1, end, u2, scale * 128)
    ELSE [u |-> u, cur |-> cur]

avro_decode_zigzag_varint_NoAdvance(data, cur, end) ==
  [v |-> IF cur < end THEN AvZigzag(data[cur + 1]) ELSE 0, cur |-> cur]

avro_decode_zigzag_varint_Unguarded(data, cur, end) ==
  LET c == IF cur < end THEN data[cur + 1] ELSE 0
      r == IF c > 127 THEN AvVarintMore(data, cur + 1, end, c % 128, 128)
           ELSE [u |-> c, cur |-> cur + 1]
  IN [v |-> AvZigzag(r.u), cur |-> r.cur]

\* Lines 35-52: the value and the cursor after it.
avro_decode_zigzag_varint(data, cur, end) ==
  LET r == IF cur < end
             THEN IF data[cur + 1] > 127
                    THEN AvVarintMore(data, cur + 1, end, data[cur + 1] % 128, 128)
                    ELSE [u |-> data[cur + 1], cur |-> cur + 1]
             ELSE [u |-> 0, cur |-> cur]
  IN [v |-> AvZigzag(r.u), cur |-> r.cur]

\* static_cast<int32_t>(v): the values of the model stay below 2^31 in size.
AvInt32(v) == v

\* while (skip > 0 && i < schema_len) { ... ++i; --skip; }  (lines 90-94, 199-203)
RECURSIVE AvSkip(_, _, _)
AvSkip(schema, i, skip) ==
  IF skip > 0 /\ i < Len(schema)
    THEN AvSkip(schema, i + 1,
                skip - 1 + (IF AvNested(schema[i + 1].kind) THEN schema[i + 1].count ELSE 0))
    ELSE i

\* Lines 84-98.
AvUnion(a) ==
  IF a.cur >= a.end
    THEN [brk |-> TRUE, i |-> a.i, cur |-> a.cur, kind |-> "union", skip |-> 0]
  ELSE LET skip == a.data[a.cur + 1] \div 2
           skip_after == a.schema[a.i + 1].count - skip - 1
           i == AvSkip(a.schema, a.i + 1, skip)
       IN IF i >= Len(a.schema) \/ skip_after < 0
            THEN [brk |-> TRUE, i |-> i, cur |-> a.cur + 1, kind |-> "union", skip |-> 0]
            ELSE [brk |-> FALSE, i |-> i, cur |-> a.cur + 1,
                  kind |-> a.schema[i + 1].kind, skip |-> skip_after]

atomicAnd_Plain(word, seen, zeros) == seen \ zeros

\* atomicAnd(address, ~(1 << bit)) on the mask bits word that are set now:
\* the bits of zeros are cleared in the value the memory holds at that
\* moment, whatever an earlier load (seen) returned.
atomicAnd(word, seen, zeros) == word \ zeros

atomicAdd_Plain(count, seen, val) == seen + val

\* atomicAdd(address, val) on the value count the memory holds now.
atomicAdd(count, seen, val) == count + val

\* Writes val at the row of the output buffer of entry j when wr holds.
AvStore(a, j, wr, val) ==
  IF wr THEN [a EXCEPT !.out[j][a.row] = [written |-> TRUE, val |-> val]] ELSE a

\* The switch of lines 100-193 for schema[i] of kind kind with the cursor at
\* cur: the state after it and the value of skip.
AvSwitch(a, i, kind, cur, skip) ==
  LET j == i + 1
      wr == a.schema[j].dataptr # NULL /\ a.row < a.max_rows
      vi == avro_decode_zigzag_varint(a.data, cur, a.end)
      at(c) == [a EXCEPT !.cur = c]
      keep(b) == [a |-> b, skip |-> skip]
  IN CASE kind = "null" ->
            keep(IF wr THEN [a EXCEPT !.cur = cur,
                                      !.valid[j] =
                                        atomicAnd(@, a.seen.valid[j],
                                                  {32 * (a.row \div 32) + (a.row % 32)}),
                                      !.schema_g[j] = atomicAdd(@, a.seen.schema_g[j], 1)]
                 ELSE at(cur))
       [] kind = "int" -> keep(AvStore(at(vi.cur), j, wr, AvInt32(vi.v)))
       [] kind = "long" -> keep(AvStore(at(vi.cur), j, wr, vi.v))
       [] kind = "enum" ->
            LET idx == a.schema[j].count + vi.v
                hit == idx >= 0 /\ idx < Len(AvDictionary)
            IN keep(AvStore(at(vi.cur), j, wr,
                            IF hit THEN AvDictionary[idx + 1]
                            ELSE [first |-> NULL, second |-> 0]))
       [] kind \in {"bytes", "string"} ->
            LET fits == vi.v >= 0 /\ vi.cur + vi.v <= a.end
            IN keep(AvStore(at(IF fits THEN vi.cur + vi.v ELSE vi.cur), j, wr,
                            IF fits THEN [first |-> vi.cur, second |-> vi.v]
                            ELSE [first |-> NULL, second |-> 0]))
       [] kind = "float" ->
            keep(IF wr
                   THEN IF cur + 3 < a.end
                          THEN AvStore(at(cur + 4), j, wr, LE32(a.data, cur))
                          ELSE AvStore(at(cur), j, wr, U32Zero)
                 ELSE at(cur + 4))
       [] kind = "double" ->
            keep(IF wr
                   THEN IF cur + 7 < a.end
                          THEN AvStore(at(cur + 8), j, wr,
                                       <<LE32(a.data, cur), LE32(a.data, cur + 4)>>)
                          ELSE AvStore(at(cur), j, wr, <<U32Zero, U32Zero>>)
                 ELSE at(cur + 8))
       [] kind = "boolean" ->
            keep(AvStore(at(cur + 1), j, wr,
                         IF cur < a.end /\ a.data[cur + 1] # 0 THEN 1 ELSE 0))
       [] kind = "array" ->
            LET size == avro_decode_zigzag_varint(a.data, vi.cur, a.end)
                array_block_count == IF vi.v < 0 THEN -vi.v ELSE vi.v
            IN [a |-> [a EXCEPT !.cur = IF vi.v < 0 THEN size.cur ELSE vi.cur,
                                !.array_start = i,
                                !.array_repeat_count = array_block_count,
                                !.array_children = 1],
                skip |-> skip + (IF array_block_count = 0 THEN a.schema[j].count ELSE 0)]
       [] OTHER -> keep(at(cur))

\* The offsets the switch of lines 100-193 dereferences for schema[i] of kind
\* kind with the cursor at cur: a varint reads the bytes it steps over
\* (*cur++, lines 39 and 44), the loads of lines 146, 161 and 174 are behind
\* their tests, and a string's bytes are pointed at but not read.
AvDeref(a, i, kind, cur) ==
  LET j == i + 1
      wr == a.schema[j].dataptr # NULL /\ a.row < a.max_rows
      vi == avro_decode_zigzag_varint(a.data, cur, a.end)
      size == avro_decode_zigzag_varint(a.data, vi.cur, a.end)
  IN CASE kind \in {"int", "long", "enum", "bytes", "string"} -> cur..(vi.cur - 1)
       [] kind = "float" -> IF wr /\ cur + 3 < a.end THEN cur..(cur + 3) ELSE {}
       [] kind = "double" -> IF wr /\ cur + 7 < a.end THEN cur..(cur + 7) ELSE {}
       [] kind = "boolean" -> IF wr /\ cur < a.end THEN {cur} ELSE {}
       [] kind = "array" -> cur..((IF vi.v < 0 THEN size.cur ELSE vi.cur) - 1)
       [] OTHER -> {}

AvArrayRestart_AlwaysItem(array_start, last) == array_start + 1

\* if (!--array_repeat_count) { i = array_start; } else { i = array_start + 1; ... }
\* (lines 206-211): the entry the loop goes back to.
AvArrayRestart(array_start, last) == IF last THEN array_start ELSE array_start + 1

\* Lines 194-212 after the switch on schema[i], then the test of the for loop.
AvAdvance(r, i) ==
  LET a == r.a
      inside == a.array_repeat_count # 0
      children ==
        IF inside
          THEN a.array_children - 1
                 + (IF AvNested(a.schema[i + 1].kind) THEN a.schema[i + 1].count ELSE 0)
          ELSE a.array_children
      next == AvSkip(a.schema, i + 1, r.skip)
      again == inside /\ children <= 0 /\ a.cur < a.end
      last == a.array_repeat_count - 1 = 0
      i2 == IF again THEN AvArrayRestart(a.array_start, last) ELSE next
  IN [a EXCEPT !.i = i2,
               !.array_repeat_count = IF again THEN @ - 1 ELSE @,
               !.array_children =
                 IF again /\ ~last THEN a.schema[a.array_start + 1].count ELSE children,
               !.pc = IF i2 < Len(a.schema) THEN "row" ELSE "return"]

\* One pass of "for (uint32_t i = 0; i < schema_len;) { ... }"  (lines 80-213)
\* on the state a of a call.
AvField(a) ==
  LET kind == a.schema[a.i + 1].kind
      u == IF kind = "union" THEN AvUnion(a)
           ELSE [brk |-> FALSE, i |-> a.i, cur |-> a.cur, kind |-> kind, skip |-> 0]
      discriminant == a.cur..(u.cur - 1)
      b == [a EXCEPT !.visited = Append(@, [i |-> u.i, cur |-> u.cur]),
                     !.reads = @ \cup discriminant \cup AvDeref(a, u.i, u.kind, u.cur)]
  IN IF u.brk THEN [a EXCEPT !.pc = "return", !.i = u.i, !.cur = u.cur,
                             !.reads = @ \cup discriminant]
     ELSE AvAdvance(AvSwitch(b, u.i, u.kind, u.cur, u.skip), u.i)

\* The whole call: the passes of the loop, then "return cur".
RECURSIVE avro_decode_row(_)
avro_decode_row(a) ==
  IF a.pc = "row" /\ a.i < Len(a.schema) THEN avro_decode_row(AvField(a))
  ELSE [a EXCEPT !.pc = "done", !.ret = a.cur]

\* The most passes of the loop of one call that are explored.
MaxAvroPasses == 150

AvroDecodeField ==
  /\ avro.pc = "row"
  /\ avro.i < Len(avro.schema)
  /\ Len(avro.visited) < MaxAvroPasses
  /\ avro' = AvField(avro)
  /\ UNCHANGED <<archVars, snappy, kern>>

\* return cur;  (line 214)
AvroDecodeReturn ==
  /\ avro.pc = "return"
  /\ avro' = [avro EXCEPT !.pc = "done", !.ret = avro.cur]
  /\ UNCHANGED <<archVars, snappy, kern>>

-----------------------------------------------------------------------------
(* The calls of avro_decode_row that are explored.                         *)

AvNode(kind, count, dataptr) == [kind |-> kind, count |-> count, dataptr |-> dataptr]

\* Schemas in pre-order; dataptr 0 is a buffer, NULL none.  The count of an
\* enum entry is its dictionary base.
AvSchemas ==
  {<<AvNode("union", 2, NULL), AvNode("null", 0, 0), AvNode("int", 0, 0)>>,
   <<AvNode("union", 2, NULL), AvNode("null", 7, 0), AvNode("int", 0, 0)>>,
   <<AvNode("union", 2, NULL), AvNode("null", 0, NULL), AvNode("int", 0, NULL)>>,
   <<AvNode("int", 0, 0), AvNode("long", 0, 0)>>,
   <<AvNode("string", 0, 0), AvNode("enum", 1, 0), AvNode("double", 0, 0)>>,
   <<AvNode("float", 0, 0), AvNode("boolean", 0, 0)>>,
   <<AvNode("enum", 0, 0), AvNode("enum", 1, 0)>>,
   <<AvNode("array", 1, NULL), AvNode("int", 0, 0)>>,
   <<AvNode("int", 0, 0), AvNode("float", 0, NULL), AvNode("boolean", 0, 0),
     AvNode("int", 0, 0), AvNode("double", 0, 0), AvNode("string", 0, 0)>>,
   <<AvNode("boolean", 0, 0), AvNode("union", 2, NULL), AvNode("null", 0, 0),
     AvNode("int", 0, 0)>>,
   <<AvNode("union", 3, NULL), AvNode("null", 0, 0), AvNode("int", 0, 0),
     AvNode("string", 0, 0)>>,
   <<AvNode("record", 2, NULL), AvNode("bytes", 0, 0), AvNode("union", 2, NULL),
     AvNode("null", 0, 0), AvNode("long", 0, 0)>>}

\* Row data: every byte string of at most MaxAvroData bytes of AvBytes.
MaxAvroData == 3

AvBytes == {0, 1, 2, 3, 4, 129}

\* Rows inside and outside the window of max_rows rows.
AvRows == {0, 1, 33, 40}

AvMaxRows == {2, 34}

AvMaskBits == 0..63

\* An output element that was never written.
AvUnset == [written |-> FALSE, val |-> 0]

\* Rows that hold one array block: the block count n, n items, the block
\* count 0.  items is the byte string of one item.
RECURSIVE AvRepeat(_, _)
AvRepeat(items, n) == IF n = 0 THEN <<>> ELSE items \o AvRepeat(items, n - 1)

AvArrayBlock(items, n) == <<2 * n>> \o AvRepeat(items, n) \o <<0>>

\* The most items of an array block.
MaxArrayItems == 3

\* A row with an array field: the schema, the row's bytes, the array entry
\* arr, the entry next that follows the item subtree, the number n of items,
\* the offset begin of the block count and the offset stop after the
\* terminating count.
AvArrayCase(schema, before, items, n, after, arr, next) ==
  [schema |-> schema, data |-> before \o AvArrayBlock(items, n) \o after,
   arr |-> arr, next |-> next, n |-> n, begin |-> Len(before),
   stop |-> Len(before) + Len(items) * n + 2]

AvArrayCases ==
  UNION {
    {AvArrayCase(<<AvNode("array", 1, NULL), AvNode("int", 0, 0)>>,
                 <<>>, <<4>>, n, <<>>, 0, 2),
     AvArrayCase(<<AvNode("array", 1, NULL), AvNode("int", 0, 0), AvNode("long", 0, 0)>>,
                 <<>>, <<129, 1>>, n, <<10>>, 0, 2),
     AvArrayCase(<<AvNode("long", 0, 0), AvNode("array", 1, NULL), AvNode("string", 0, 0),
                   AvNode("boolean", 0, 0)>>,
                 <<8>>, <<4, 97, 98>>, n, <<1>>, 1, 3),
     AvArrayCase(<<AvNode("array", 1, NULL), AvNode("record", 2, NULL), AvNode("int", 0, 0),
                   AvNode("long", 0, 0), AvNode("boolean", 0, 0)>>,
                 <<>>, <<2, 4>>, n, <<1>>, 0, 4)} : n \in 1..MaxArrayItems}

\* The calls that are explored: every schema with every short row, and the
\* array rows.
AvCalls ==
  {[schema |-> schema, data |-> data] :
     schema \in AvSchemas, data \in BoundedSeq(AvBytes, MaxAvroData)}
    \cup {[schema |-> c.schema, data |-> c.data] : c \in AvArrayCases}

InitAvro ==
  /\ ArchIdle
  /\ snappy = SnIdle
  /\ kern = KernIdle
  /\ \E call \in AvCalls, row \in AvRows, max_rows \in AvMaxRows :
       avro = [AvIdle EXCEPT
                 !.pc = "row", !.schema = call.schema,
                 !.schema_g = [j \in DOMAIN call.schema |-> call.schema[j].count],
                 !.data = call.data, !.end = Len(call.data), !.row = row,
                 !.max_rows = max_rows,
                 !.out = [j \in DOMAIN call.schema |->
                            [r \in 0..(max_rows - 1) |-> AvUnset]],
                 !.valid = [j \in DOMAIN call.schema |-> AvMaskBits],
                 !.seen = [valid |-> [j \in DOMAIN call.schema |-> AvMaskBits],
                           schema_g |-> [j \in DOMAIN call.schema |->
                                           call.schema[j].count]]]

NextAvro ==
  \/ AvroDecodeField
  \/ AvroDecodeReturn

SpecAvro == InitAvro /\ [][NextAvro]_vars

-----------------------------------------------------------------------------
(* Properties of avro_decode_row.                                          *)

\* A finished call for the schema [union[null, int]] with both buffers
\* present and the row inside the output window.
AvUnionNullInt ==
  /\ avro.pc = "done"
  /\ Len(avro.schema) = 3
  /\ avro.schema[1].kind = "union" /\ avro.schema[1].count = 2
  /\ avro.schema[2].kind = "null" /\ avro.schema[2].dataptr # NULL
  /\ avro.schema[3].kind = "int" /\ avro.schema[3].dataptr # NULL
  /\ avro.row < avro.max_rows

\* The null branch was taken: the validity bit of the row is cleared, the
\* null counter is one more than before, no int is stored.
AvNullTaken ==
  /\ avro.valid[2] = AvMaskBits \ {avro.row}
  /\ avro.schema_g[2] = avro.schema[2].count + 1
  /\ ~avro.out[3][avro.row].written

\* The int branch stored val: validity bit and null counter are as before.
AvIntStored(val) ==
  /\ avro.out[3][avro.row].written
  /\ avro.out[3][avro.row].val = val
  /\ avro.valid[2] = AvMaskBits
  /\ avro.schema_g[2] = avro.schema[2].count

\* C10, as stated: for [union[null, int]] and a row inside the window, the
\* discriminant byte 0 clears the row's validity bit and adds one to the null
\* counter; the discriminant byte 1 followed by the byte 1 (zig-zag for -1)
\* stores -1 for the row and leaves validity bit and null counter unchanged.
C10_DiscriminantByteOne ==
  (AvUnionNullInt /\ Len(avro.data) >= 1) =>
    /\ avro.data[1] = 0 => AvNullTaken
    /\ (Len(avro.data) >= 2 /\ avro.data[1] = 1 /\ avro.data[2] = 1) => AvIntStored(-1)

\* C10, amended: the discriminant byte holds twice the branch ordinal (the
\* ordinal is the byte shifted right by one).  The bytes 0 and 1 both select
\* the null branch; the byte 2 (ordinal 1) followed by the byte 1 stores -1
\* and leaves validity bit and null counter unchanged.
C10_DiscriminantIsTwiceOrdinal ==
  (AvUnionNullInt /\ Len(avro.data) >= 1) =>
    /\ avro.data[1] \in {0, 1} => AvNullTaken
    /\ (Len(avro.data) >= 2 /\ avro.data[1] = 2 /\ avro.data[2] = 1) => AvIntStored(-1)

\* Row 33 of [union[null, int]] decoded the bytes 2, 1 to -1.
C10_Witness ==
  /\ AvUnionNullInt /\ avro.row = 33
  /\ avro.data = <<2, 1>>
  /\ avro.out[3][33] = [written |-> TRUE, val |-> -1] /\ avro.ret = 2

\* The passes of the for loop that switched on entry i.
AvVisits(i) == {k \in DOMAIN avro.visited : avro.visited[k].i = i}

\* The finished call decoded the array row c as the format lays it out.
AvArrayDecoded(c) ==
  LET arrays == AvVisits(c.arr)
      closing == CHOOSE k \in arrays : \A m \in arrays : m <= k
  IN /\ \A i \in (c.arr + 1)..(c.next - 1) :
          /\ Cardinality(AvVisits(i)) = c.n
          /\ \A k \in AvVisits(i) :
               c.begin < avro.visited[k].cur /\ avro.visited[k].cur < c.stop - 1
     /\ {avro.visited[k].cur : k \in arrays} = {c.begin, c.stop - 1}
     /\ Cardinality(arrays) = 2
     /\ IF c.next < Len(c.schema)
          THEN /\ closing < Len(avro.visited)
               /\ avro.visited[closing + 1] = [i |-> c.next, cur |-> c.stop]
          ELSE closing = Len(avro.visited) /\ avro.ret = c.stop
     /\ avro.ret = Len(c.data)

\* C11: for an array field that is not inside a union or another array and
\* is encoded as a block count n > 0, n items and the block count 0,
\* avro_decode_row decodes every entry of the item subtree exactly n times,
\* all between the two counts, reads the array entry exactly twice (at the
\* count and at the terminator), and goes on with the entry after the item
\* subtree at the byte after the terminator.
C11_ArrayBlockDecodedOnce ==
  avro.pc = "done" =>
    \A c \in AvArrayCases :
      (avro.schema = c.schema /\ avro.data = c.data) => AvArrayDecoded(c)

\* Three strings between a long and a boolean were decoded as one array.
C11_Witness ==
  /\ avro.pc = "done" /\ Len(avro.schema) = 4 /\ avro.schema[2].kind = "array"
  /\ avro.data = <<8, 6, 4, 97, 98, 4, 97, 98, 4, 97, 98, 0, 1>>
  /\ Cardinality(AvVisits(2)) = 3
  /\ avro.ret = 13 /\ avro.row = 1
  /\ avro.out[4][1] = [written |-> TRUE, val |-> 1]

\* The cursor after pass k of the for loop: where the next pass starts, or
\* what the call returns.
AvCursorAfter(k) ==
  IF k < Len(avro.visited) THEN avro.visited[k + 1].cur ELSE avro.ret

\* The fixed width of a float or double entry.
AvFixedWidth(kind) == IF kind = "float" THEN 4 ELSE 8

\* Pass k switched on a float or double entry with fewer bytes than its
\* width left before the end.
AvTruncatedFixed(k) ==
  LET v == avro.visited[k]
      kind == avro.schema[v.i + 1].kind
  IN /\ kind \in {"float", "double"}
     /\ v.cur + AvFixedWidth(kind) > avro.end

\* C17: a float (double) entry reached with fewer than 4 (8) bytes left
\* before the end of the block is taken as zero and the cursor still moves
\* on by exactly 4 (8) bytes, whether or not the row is written.
C17_TruncatedFixedWidthAdvances ==
  avro.pc = "done" =>
    \A k \in DOMAIN avro.visited :
      AvTruncatedFixed(k) =>
        LET v == avro.visited[k]
            j == v.i + 1
        IN /\ AvCursorAfter(k) = v.cur + AvFixedWidth(avro.schema[j].kind)
           /\ (avro.schema[j].dataptr # NULL /\ avro.row < avro.max_rows) =>
                /\ avro.out[j][avro.row].written
                /\ avro.out[j][avro.row].val \in {U32Zero, <<U32Zero, U32Zero>>}

\* The enum entries of the schema, and the number of symbols of enum entry j:
\* its dictionary entries run from its base to the base of the next enum
\* entry, or to the end of the dictionary.
AvEnums == {j \in DOMAIN avro.schema : avro.schema[j].kind = "enum"}

AvEnumSymbols(j) ==
  LET later == {avro.schema[m].count : m \in {m \in AvEnums : m > j}} \cup {Len(AvDictionary)}
      upto == CHOOSE b \in later : \A c \in later : b <= c
  IN upto - avro.schema[j].count

\* C18: an enum entry of a written row gets the dictionary entry at
\* dictionary_base + ordinal when 0 <= ordinal < the number of symbols of
\* the field, and the null view (no pointer, length 0) for any other
\* ordinal; it never gets a dictionary entry of another field.
C18_EnumOrdinalInRange ==
  (avro.pc = "done" /\ avro.row < avro.max_rows) =>
    \A k \in DOMAIN avro.visited :
      LET v == avro.visited[k]
          j == v.i + 1
          ordinal == avro_decode_zigzag_varint(avro.data, v.cur, avro.end).v
      IN (avro.schema[j].kind = "enum" /\ avro.schema[j].dataptr # NULL) =>
           /\ avro.out[j][avro.row].written
           /\ avro.out[j][avro.row].val =
                IF 0 <= ordinal /\ ordinal < AvEnumSymbols(j)
                  THEN AvDictionary[avro.schema[j].count + ordinal + 1]
                  ELSE [first |-> NULL, second |-> 0]

-----------------------------------------------------------------------------
(* Termination of avro_decode_row.                                         *)

\* Schemas whose array items consume no bytes (null, empty record), arrays
\* nested in arrays, an array of unions and a union with an array branch.
AvLoopSchemas ==
  {<<AvNode("array", 1, NULL), AvNode("null", 0, 0)>>,
   <<AvNode("array", 1, NULL), AvNode("record", 0, NULL)>>,
   <<AvNode("array", 1, NULL), AvNode("array", 1, NULL), AvNode("int", 0, 0)>>,
   <<AvNode("array", 1, NULL), AvNode("array", 1, NULL), AvNode("null", 0, 0)>>,
   <<AvNode("array", 1, NULL), AvNode("union", 2, NULL), AvNode("null", 0, 0),
     AvNode("int", 0, 0)>>,
   <<AvNode("union", 2, NULL), AvNode("null", 0, 0), AvNode("array", 1, NULL),
     AvNode("null", 0, 0)>>}

\* Block counts 0, 1, 2, -1 and -65 (a negative count is followed by the
\* block size); as union discriminants the first bytes select branch 0, 1,
\* 2 and 64.
AvLoopCounts == {<<0>>, <<2>>, <<4>>, <<1, 0>>, <<129, 1, 0>>}

AvLoopTails == {<<>>, <<0>>, <<2, 0>>, <<4, 2, 0>>}

AvLoopRows ==
  {a \o b \o c : a \in AvLoopCounts \cup {<<>>}, b \in AvLoopCounts \cup {<<>>},
                 c \in AvLoopTails}

\* No call has been made yet.
InitAvroLive ==
  /\ ArchIdle
  /\ snappy = SnIdle
  /\ kern = KernIdle
  /\ avro = AvIdle

\* The call of line 279: a lane enters avro_decode_row.
AvroDecodeEnter ==
  /\ avro.pc = "idle"
  /\ \E schema \in AvLoopSchemas, data \in AvLoopRows, row \in {0, 40} :
       avro' = [AvIdle EXCEPT
                  !.pc = "row", !.schema = schema,
                  !.schema_g = [j \in DOMAIN schema |-> schema[j].count],
                  !.data = data, !.end = Len(data), !.row = row,
                  !.max_rows = 2,
                  !.out = [j \in DOMAIN schema |-> [r \in 0..1 |-> AvUnset]],
                  !.valid = [j \in DOMAIN schema |-> AvMaskBits],
                  !.seen = [valid |-> [j \in DOMAIN schema |-> AvMaskBits],
                            schema_g |-> [j \in DOMAIN schema |-> schema[j].count]]]
  /\ UNCHANGED <<archVars, snappy, kern>>

NextAvroLive ==
  \/ AvroDecodeEnter
  \/ AvroDecodeField
  \/ AvroDecodeReturn

\* A pass of the loop can be taken: ENABLED <<AvroDecodeField>>_vars written
\* out (every pass changes avro: it appends to visited or leaves "row").
AvroFieldEnabled ==
  avro.pc = "row" /\ avro.i < Len(avro.schema) /\ Len(avro.visited) < MaxAvroPasses

\* The thread that entered avro_decode_row keeps executing it: weak fairness
\* of the passes of the loop, with the enabling condition written out, and
\* of the return.
SpecAvroLive ==
  /\ InitAvroLive
  /\ [][NextAvroLive]_vars
  /\ ([]<>(~AvroFieldEnabled) \/ []<><<AvroDecodeField>>_vars)
  /\ WF_vars(AvroDecodeReturn)

\* C22: avro_decode_row terminates for every schema and every row, arrays
\* whose item consumes no bytes, arrays nested in arrays and unions with an
\* out-of-range discriminant included: every call reaches its return.
C22_DecodeRowTerminates == (avro.pc = "row") ~> (avro.pc = "done")

\* The passes of the finished call that switched on entry i.
AvPassesAt(i) == Cardinality({n \in DOMAIN avro.visited : avro.visited[n].i = i})

\* A finished call for array[null] whose two blocks of 65 items, none of
\* which consumes a byte, were each repeated to the end, the loop going
\* back to the array entry after each.
C22_Witness ==
  /\ avro.pc = "done"
  /\ Len(avro.schema) = 2
  /\ avro.schema[1].kind = "array" /\ avro.schema[2].kind = "null"
  /\ AvPassesAt(1) = 130
  /\ AvPassesAt(0) = 3
  /\ avro.ret = avro.end

\* The passes of the call that reached the switch with the cursor at or
\* beyond the end of the block.
AvPassesBeyondEnd == {n \in DOMAIN avro.visited : avro.visited[n].cur >= avro.end}

\* C24: the row decoder reads input bytes only inside the block span
\* [block offset, block offset + block size), here [0, end): no union
\* discriminant, varint, string, float, double or boolean decode dereferences
\* the cursor at or beyond the end, also after an unguarded step (boolean,
\* unwritten float or double) has put the cursor past the end.
C24_ReadsInsideBlockSpan ==
  \A o \in avro.reads : 0 <= o /\ o < avro.end

\* A finished call for [int, float, boolean, int, double, string] on a row
\* of one byte, inside the window: the int read that byte, the float without
\* a buffer moved the cursor past the end, and the four fields after it were
\* decoded with the cursor beyond the end.
C24_Witness ==
  /\ avro.pc = "done"
  /\ Len(avro.schema) = 6 /\ avro.schema[2].kind = "float"
  /\ avro.row < avro.max_rows
  /\ avro.end = 1 /\ avro.reads = {0}
  /\ Cardinality(AvPassesBeyondEnd) = 5
  /\ avro.ret > avro.end

-----------------------------------------------------------------------------
(* gpuDecodeAvroColumnData (avro_gpu.cu:230-297), one launch.              *)
(* One warp works on one block.  kern.schema_g is the schema in global      *)
(* memory, kern.schema the copy in shared memory, kern.out and kern.valid   *)
(* the output buffers and validity masks behind the dataptr of each entry.  *)
(* kern.warps[b] holds the locals of the warp of block b - 1; its log is    *)
(* the history of the rows its lanes decoded.  kern.uploaded keeps the      *)
(* schema as it was when the kernel was launched.                           *)

\* The lanes of a warp that the model runs; blockDim.x is 32 in the code.
WarpLanes == 3

max_shared_schema_len == 1000

\* size_t arithmetic wraps at SizeModulus (2^64 in the code).
SizeModulus == 1073741824

Min(a, b) == IF a < b THEN a ELSE b

KernRowIndex_Absolute(cur_row, first_row, lane) == (cur_row + lane) % SizeModulus

\* cur_row - first_row + threadIdx.x, a size_t  (line 282)
KernRowIndex(cur_row, first_row, lane) == (cur_row - first_row + lane) % SizeModulus

KernLaneStart_NoOffset(cur, lane, min_row_size, fixed) == cur

\* cur += threadIdx.x * min_row_size in the fixed-width case  (lines 272-277)
KernLaneStart(cur, lane, min_row_size, fixed) ==
  IF fixed THEN cur + lane * min_row_size ELSE cur

KernAfterLanes_OneRow(start, nrows, min_row_size, cur0) ==
  IF nrows <= 1 THEN start + (cur0 - start) ELSE start + min_row_size

\* Lines 288-292: the cursor of the warp after the rows of one step; cur0 is
\* the cursor of lane 0, which shuffle() hands to every lane.
KernAfterLanes(start, nrows, min_row_size, cur0) ==
  IF nrows <= 1 THEN start + (cur0 - start) ELSE start + nrows * min_row_size

\* The locals of a warp after lines 263-266.
KernWarp(blk) ==
  [pc |-> "loop", cur_row |-> blk.first_row, rows_remaining |-> blk.num_rows,
   cur |-> blk.offset, end |-> blk.offset + blk.size, start |-> 0, nrows |-> 0,
   fixed |-> FALSE, pending |-> {}, cur0 |-> 0,
   seen |-> [valid |-> <<>>, schema_g |-> <<>>], log |-> <<>>]

\* The schema the lanes read: the shared copy, or the global schema itself.
KernSchema(k) == IF k.shared THEN k.schema ELSE k.schema_g

KernCounts(k) == [j \in DOMAIN k.schema_g |-> k.schema_g[j].count]

\* The arguments of avro_decode_row(schema, schema_g, schema_len, row,
\* max_rows, cur, end, global_dictionary) of lines 279-286, on the memory mem.
KernCall(k, mem, row, cur, end, seen) ==
  [AvIdle EXCEPT !.pc = "row", !.schema = KernSchema(k), !.schema_g = mem.schema_g,
                 !.data = k.avro_data, !.cur = cur, !.end = end, !.row = row,
                 !.max_rows = k.max_rows, !.out = mem.out, !.valid = mem.valid,
                 !.seen = seen]

\* Lines 250-266: the schema is fetched into shared memory when it fits, the
\* block descriptions are loaded and every warp sets up its locals.
KernFetchSchema ==
  /\ kern.pc = "fetch"
  /\ kern' = [kern EXCEPT
                !.pc = "run",
                !.shared = Len(kern.schema_g) <= max_shared_schema_len,
                !.schema = IF Len(kern.schema_g) <= max_shared_schema_len
                             THEN kern.schema_g ELSE <<>>,
                !.warps = [b \in DOMAIN kern.blocks |-> KernWarp(kern.blocks[b])]]
  /\ UNCHANGED <<archVars, snappy, avro>>

\* Lines 267-277: the test of the while loop, the break and the choice of
\* the rows of this step.
KernWarpBegin(b) ==
  LET w == kern.warps[b]
      fixed == w.cur + kern.min_row_size * w.rows_remaining = w.end
      nrows == IF fixed THEN Min(w.rows_remaining, WarpLanes) ELSE 1
  IN /\ kern.pc = "run" /\ w.pc = "loop"
     /\ kern' = [kern EXCEPT !.warps[b] =
          IF ~(w.rows_remaining > 0 /\ w.cur < w.end)
               \/ w.cur_row > kern.first_row + kern.max_rows
            THEN [w EXCEPT !.pc = "exit"]
            ELSE [w EXCEPT !.pc = "lanes", !.start = w.cur, !.fixed = fixed,
                           !.nrows = nrows,
                           !.pending = {lane \in 0..(WarpLanes - 1) : lane < nrows},
                           !.seen = [valid |-> kern.valid, schema_g |-> KernCounts(kern)]]]
     /\ UNCHANGED <<archVars, snappy, avro>>

\* The slots of the output buffers and validity masks that differ between
\* the memories m1 and m2.
KernTouched(m1, m2) ==
  {s \in DOMAIN m1.out[1] :
     \E j \in DOMAIN m1.out : \/ m1.out[j][s] # m2.out[j][s]
                              \/ (s \in m1.valid[j]) # (s \in m2.valid[j])}

\* Lines 278-287: lane threadIdx.x = lane of the warp decodes its row.
KernLane(b, lane) ==
  LET w == kern.warps[b]
      mem == [out |-> kern.out, valid |-> kern.valid, schema_g |-> KernCounts(kern)]
      row == KernRowIndex(w.cur_row, kern.first_row, lane)
      at == KernLaneStart(w.cur, lane, kern.min_row_size, w.fixed)
      a == avro_decode_row(KernCall(kern, mem, row, at, w.end, w.seen))
      entry_ == [k |-> w.cur_row + lane - kern.blocks[b].first_row, lane |-> lane,
                 row |-> row, at |-> at, ret |-> a.ret, fixed |-> w.fixed,
                 reads |-> a.reads, touched |-> KernTouched(mem, a),
                 counted |-> {j \in DOMAIN a.schema_g : a.schema_g[j] # mem.schema_g[j]}]
  IN /\ kern.pc = "run" /\ w.pc = "lanes" /\ lane \in w.pending
     /\ kern' = [kern EXCEPT
                   !.out = a.out, !.valid = a.valid,
                   !.schema_g = [j \in DOMAIN kern.schema_g |->
                                   [kern.schema_g[j] EXCEPT !.count = a.schema_g[j]]],
                   !.warps[b] = [w EXCEPT !.pending = @ \ {lane},
                                          !.cur0 = IF lane = 0 THEN a.ret ELSE @,
                                          !.log = Append(@, entry_)]]
     /\ UNCHANGED <<archVars, snappy, avro>>

\* Lines 288-295: the lanes agree on the cursor and the warp counts its rows.
KernWarpEnd(b) ==
  LET w == kern.warps[b] IN
  /\ kern.pc = "run" /\ w.pc = "lanes" /\ w.pending = {}
  /\ kern' = [kern EXCEPT !.warps[b] =
                [w EXCEPT !.pc = "loop",
                          !.cur = KernAfterLanes(w.start, w.nrows, kern.min_row_size, w.cur0),
                          !.cur_row = @ + w.nrows,
                          !.rows_remaining = @ - w.nrows]]
  /\ UNCHANGED <<archVars, snappy, avro>>

\* Every warp has left its loop: the kernel is finished.
KernExit ==
  /\ kern.pc = "run"
  /\ \A b \in DOMAIN kern.warps : kern.warps[b].pc = "exit"
  /\ kern' = [kern EXCEPT !.pc = "done"]
  /\ UNCHANGED <<archVars, snappy, avro>>

-----------------------------------------------------------------------------
(* The launches that are explored.                                         *)

RECURSIVE KernConcat(_)
KernConcat(rows) == IF rows = <<>> THEN <<>> ELSE Head(rows) \o KernConcat(Tail(rows))

\* The bytes of a file between two blocks (a sync marker).
KernGap == <<255>>

RECURSIVE KernOffset(_, _)
KernOffset(table, b) ==
  IF b = 1 THEN 0
  ELSE KernOffset(table, b - 1) + Len(KernConcat(table[b - 1].rows)) + Len(KernGap)

\* block_desc_s of block b of the table, and the rows that are encoded in it.
KernBlock(table, b) ==
  [first_row |-> table[b].first_row, num_rows |-> table[b].num_rows,
   offset |-> KernOffset(table, b), size |-> Len(KernConcat(table[b].rows)),
   rows |-> table[b].rows]

RECURSIVE KernData(_)
KernData(table) ==
  IF table = <<>> THEN <<>>
  ELSE KernConcat(Head(table).rows) \o KernGap \o KernData(Tail(table))

KernRows(first_row, rows) == [first_row |-> first_row, num_rows |-> Len(rows), rows |-> rows]

KernUnionNullInt == <<AvNode("union", 2, NULL), AvNode("null", 0, 0), AvNode("int", 0, 0)>>

\* Schema, min_row_size and blocks.  The last launch has a block whose
\* description promises two rows of one byte and whose bytes are one row of
\* two bytes.
KernLaunches ==
  {[schema |-> KernUnionNullInt, min_row_size |-> 1,
    table |-> <<KernRows(0, [n \in 1..(WarpLanes + 1) |-> <<n % 2>>])>>],
   [schema |-> KernUnionNullInt, min_row_size |-> 1,
    table |-> <<KernRows(0, <<<<0>>, <<2, 4>>>>), KernRows(2, <<<<0>>, <<0>>, <<1>>>>)>>],
   [schema |-> <<AvNode("int", 0, 0)>>, min_row_size |-> 1,
    table |-> <<KernRows(0, [n \in 1..(WarpLanes + 1) |-> <<2 * n>>])>>],
   [schema |-> <<AvNode("boolean", 0, 0), AvNode("long", 0, 0)>>, min_row_size |-> 2,
    table |-> <<KernRows(0, <<<<1, 6>>, <<0, 129, 1>>>>),
                KernRows(2, <<<<1, 2>>, <<1, 4>>>>)>>],
   [schema |-> <<AvNode("int", 0, 0)>>, min_row_size |-> 1,
    table |-> <<[first_row |-> 0, num_rows |-> 2, rows |-> <<<<129, 0>>>>]>>]}

KernFirstRows == {0, 1, 3}

KernMaxRows == {2, 5}

\* The slots of the memory behind each dataptr: the max_rows slots of the
\* buffer and the memory after them.
MaxKernSlot == 7

KernMemory(schema) ==
  [out |-> [j \in DOMAIN schema |-> [s \in 0..MaxKernSlot |-> AvUnset]],
   valid |-> [j \in DOMAIN schema |-> AvMaskBits],
   schema_g |-> [j \in DOMAIN schema |-> schema[j].count]]

InitKernel ==
  /\ ArchIdle
  /\ snappy = SnIdle
  /\ avro = AvIdle
  /\ \E l \in KernLaunches, first_row \in KernFirstRows, max_rows \in KernMaxRows :
       kern = [KernIdle EXCEPT
                 !.pc = "fetch", !.schema_g = l.schema, !.uploaded = l.schema,
                 !.blocks = [b \in DOMAIN l.table |-> KernBlock(l.table, b)],
                 !.avro_data = KernData(l.table), !.min_row_size = l.min_row_size,
                 !.max_rows = max_rows, !.first_row = first_row,
                 !.out = KernMemory(l.schema).out, !.valid = KernMemory(l.schema).valid]

NextKernel ==
  \/ KernFetchSchema
  \/ \E b \in DOMAIN kern.warps : KernWarpBegin(b)
  \/ \E b \in DOMAIN kern.warps : \E lane \in 0..(WarpLanes - 1) : KernLane(b, lane)
  \/ \E b \in DOMAIN kern.warps : KernWarpEnd(b)
  \/ KernExit

SpecKernel == InitKernel /\ [][NextKernel]_vars

-----------------------------------------------------------------------------
(* Properties of gpuDecodeAvroColumnData.                                  *)

\* The rows decoded so far: the warp and the place in its log.
KernDecoded ==
  UNION {{<<b, n>> : n \in DOMAIN kern.warps[b].log} : b \in DOMAIN kern.warps}

KernEntry(p) == kern.warps[p[1]].log[p[2]]

\* The absolute index of the row of a log entry: the first row of its block
\* plus its place in the block.
KernAbsRow(p) == kern.blocks[p[1]].first_row + KernEntry(p).k

\* Every block holds the rows its description counts.
KernWellFormed ==
  \A b \in DOMAIN kern.blocks : kern.blocks[b].num_rows = Len(kern.blocks[b].rows)

\* C12: a value slot, a validity bit or a null counter is written only for
\* a row whose absolute index r has first_row <= r < first_row + max_rows,
\* and then at slot r - first_row; a row with r < first_row is parsed and
\* writes nothing; the memory after the max_rows slots stays as it was; when
\* the kernel is finished every row below first_row has been parsed.
C12_WritesOnlyInsideWindow ==
  /\ \A p \in KernDecoded :
       LET e == KernEntry(p)
           r == KernAbsRow(p)
       IN (e.touched # {} \/ e.counted # {}) =>
            /\ kern.first_row <= r /\ r < kern.first_row + kern.max_rows
            /\ e.touched \subseteq {r - kern.first_row}
  /\ \A j \in DOMAIN kern.out : \A s \in kern.max_rows..MaxKernSlot :
       kern.out[j][s] = AvUnset /\ s \in kern.valid[j]
  /\ (kern.pc = "done" /\ KernWellFormed) =>
       \A b \in DOMAIN kern.blocks : \A n \in DOMAIN kern.blocks[b].rows :
         kern.blocks[b].first_row + n - 1 < kern.first_row =>
           \E p \in KernDecoded : p[1] = b /\ KernEntry(p).k = n - 1

\* With first_row = 1, row 0 was parsed without a write and row 1 went to
\* slot 0.
C12_Witness ==
  /\ kern.pc = "done" /\ kern.first_row = 1 /\ kern.max_rows = 2
  /\ Len(kern.schema_g) = 1 /\ kern.blocks[1].rows[1] = <<2>>
  /\ \E p \in KernDecoded :
       KernAbsRow(p) = 0 /\ KernEntry(p).touched = {} /\ KernEntry(p).ret = 1
  /\ kern.out[1][0] = [written |-> TRUE, val |-> 2]
  /\ kern.out[1][1] = [written |-> TRUE, val |-> 3]

\* The memory (output buffers, validity masks, null counters) after the rows
\* of the block behind w are decoded strictly one after another, each where
\* the one before ended; exact tells whether every row took min_row_size
\* bytes and the block held all its rows.
RECURSIVE KernSeqRows(_, _, _)
KernSeqRows(k, mem, w) ==
  IF w.rows_remaining > 0 /\ w.cur < w.end /\ ~(w.cur_row > k.first_row + k.max_rows)
    THEN LET a == avro_decode_row(
                    KernCall(k, mem, KernRowIndex(w.cur_row, k.first_row, 0), w.cur, w.end,
                             [valid |-> mem.valid, schema_g |-> mem.schema_g]))
         IN KernSeqRows(k,
                        [out |-> a.out, valid |-> a.valid, schema_g |-> a.schema_g,
                         exact |-> mem.exact /\ a.ret - w.cur = k.min_row_size],
                        [w EXCEPT !.cur = a.ret, !.cur_row = @ + 1,
                                  !.rows_remaining = @ - 1])
    ELSE [mem EXCEPT !.exact = @ /\ (w.rows_remaining = 0 \/ w.cur < w.end)]

RECURSIVE KernSeqBlocks(_, _, _)
KernSeqBlocks(k, mem, b) ==
  IF b > Len(k.blocks) THEN mem
  ELSE KernSeqBlocks(k, KernSeqRows(k, mem, KernWarp(k.blocks[b])), b + 1)

\* The sequential decode of the whole launch, from untouched memory.
KernSequential ==
  KernSeqBlocks(kern,
                [out |-> KernMemory(kern.schema).out, valid |-> KernMemory(kern.schema).valid,
                 schema_g |-> KernMemory(kern.schema).schema_g, exact |-> TRUE],
                1)

\* Every block of the launch has byte_size = min_row_size * row_count.
KernAllFixed ==
  \A b \in DOMAIN kern.blocks :
    kern.blocks[b].size = kern.min_row_size * kern.blocks[b].num_rows

KernSameAsSequential ==
  /\ kern.out = KernSequential.out
  /\ kern.valid = KernSequential.valid
  /\ KernCounts(kern) = KernSequential.schema_g

\* C13, as stated: for blocks with byte_size = min_row_size * row_count the
\* fixed-width path (lane k at offset k * min_row_size) and the decode of one
\* row at a time leave the same output buffers, validity masks and null
\* counters.
C13_FixedWidthEqualsSequential ==
  (kern.pc = "done" /\ KernAllFixed) => KernSameAsSequential

\* C13, amended: the same, for blocks whose rows are in fact encoded in
\* min_row_size bytes each (decoded one at a time, every row ends
\* min_row_size bytes after its start and the block holds all its rows).
C13_ExactRowsEqualSequential ==
  (kern.pc = "done" /\ KernAllFixed /\ KernSequential.exact) => KernSameAsSequential

\* A block of WarpLanes + 1 one-byte ints went through two fixed-width steps.
C13_Witness ==
  /\ kern.pc = "done" /\ KernAllFixed /\ KernSequential.exact
  /\ kern.first_row = 0 /\ kern.max_rows = 5
  /\ Len(kern.warps[1].log) = WarpLanes + 1
  /\ \A n \in 1..(WarpLanes + 1) :
       /\ kern.warps[1].log[n].fixed
       /\ kern.out[1][n - 1] = [written |-> TRUE, val |-> n]

\* The row encoded as bytes is null at entry j: decoded alone, as row 0 of a
\* window of one row, it counts a null for j.
KernRowNull(bytes, j) ==
  LET k == [kern EXCEPT !.avro_data = bytes, !.max_rows = 1]
      mem == KernMemory(kern.schema)
      a == avro_decode_row(KernCall(k, mem, 0, 0, Len(bytes),
                                    [valid |-> mem.valid, schema_g |-> mem.schema_g]))
  IN a.schema_g[j] # mem.schema_g[j]

\* The slots of the rows inside the window that are null at entry j.
KernNullSlots(j) ==
  UNION {{kern.blocks[b].first_row + n - 1 - kern.first_row :
            n \in {n \in DOMAIN kern.blocks[b].rows :
                     /\ kern.first_row <= kern.blocks[b].first_row + n - 1
                     /\ kern.blocks[b].first_row + n - 1 < kern.first_row + kern.max_rows
                     /\ KernRowNull(kern.blocks[b].rows[n], j)}} :
         b \in DOMAIN kern.blocks}

\* C14: whatever the order in which the lanes of a warp and the warps of
\* different blocks run, after the kernel the validity mask of every entry
\* has lost exactly the bits of the rows inside the window that are null
\* there, and its null counter has grown by the number of those rows.
C14_NullTrackingLosesNothing ==
  (kern.pc = "done" /\ KernWellFormed) =>
    \A j \in DOMAIN kern.schema_g :
      /\ kern.valid[j] = AvMaskBits \ KernNullSlots(j)
      /\ kern.schema_g[j].count = kern.schema[j].count + Cardinality(KernNullSlots(j))

\* Two warps cleared four bits of one mask: one row of the first block and
\* three rows of the second are null.
C14_Witness ==
  /\ kern.pc = "done" /\ Len(kern.blocks) = 2 /\ Len(kern.schema_g) = 3
  /\ kern.first_row = 0 /\ kern.max_rows = 5
  /\ kern.valid[2] = AvMaskBits \ {0, 2, 3, 4}
  /\ kern.schema_g[2].count = 4
  /\ kern.warps[2].log[1].lane # 0
  /\ kern.out[3][1] = [written |-> TRUE, val |-> 2]

KernRowOffset(b, k) ==
  kern.blocks[b].offset + Len(KernConcat(SubSeq(kern.blocks[b].rows, 1, k)))

\* C20: in every block the k-th encoded row (k from 0) is the row decoded
\* for output slot first_row_index + k - first_row, in the fixed-width and
\* in the variable-width path alike; no row is decoded twice; in the
\* variable-width path row k + 1 is decoded after row k and from the byte
\* where row k ended; when the kernel is finished every row inside the
\* window has been decoded.
C20_RowOrderPreserved ==
  KernWellFormed =>
    \A b \in DOMAIN kern.warps :
      LET log == kern.warps[b].log
          blk == kern.blocks[b]
      IN /\ \A n \in DOMAIN log :
              /\ log[n].k \in 0..(blk.num_rows - 1)
              /\ log[n].at = KernRowOffset(b, log[n].k)
              /\ log[n].ret = KernRowOffset(b, log[n].k + 1)
              /\ log[n].row = KernRowIndex(blk.first_row + log[n].k, kern.first_row, 0)
              /\ \A m \in DOMAIN log : log[m].k = log[n].k => m = n
              /\ (~log[n].fixed /\ log[n].k > 0) =>
                   /\ n > 1
                   /\ log[n - 1].k = log[n].k - 1
                   /\ log[n - 1].ret = log[n].at
         /\ kern.pc = "done" =>
              \A k \in 0..(blk.num_rows - 1) :
                (/\ kern.first_row <= blk.first_row + k
                 /\ blk.first_row + k < kern.first_row + kern.max_rows) =>
                  \E n \in DOMAIN log : log[n].k = k

\* A block of a two-byte and a three-byte row was decoded one row after the
\* other, and the block after it by two lanes at once.
C20_Witness ==
  /\ kern.pc = "done" /\ Len(kern.blocks) = 2 /\ Len(kern.schema_g) = 2
  /\ kern.first_row = 1 /\ kern.max_rows = 5
  /\ Len(kern.warps[1].log) = 2
  /\ ~kern.warps[1].log[2].fixed /\ kern.warps[1].log[2].at = 2
  /\ kern.warps[1].log[2].ret = 5
  /\ kern.warps[2].log[1].fixed /\ kern.warps[2].log[1].lane = 1
  /\ kern.out[2][0] = [written |-> TRUE, val |-> -65]
  /\ kern.out[2][2] = [written |-> TRUE, val |-> 2]

\* The kernel side of the read bounds: the loop body is entered only with the
\* cursor before the end of the block, every lane starts its row before the
\* end, and the bytes its call reads lie inside the block.
KernReadsInsideBlock ==
  \A b \in DOMAIN kern.warps :
    LET w == kern.warps[b]
        blk == kern.blocks[b]
    IN /\ w.pc = "lanes" => w.start < w.end
       /\ \A n \in DOMAIN w.log :
            /\ blk.offset <= w.log[n].at /\ w.log[n].at < w.end
            /\ \A o \in w.log[n].reads : blk.offset <= o /\ o < blk.offset + blk.size

=============================================================================
